---- MODULE Spec2Model ----
(***************************************************************************)
(* A model of mkdeb: the typed primitives (entry type, permission, owner,  *)
(* hash and compression algorithm), the file entry and manifest models,    *)
(* the build pipeline (Resolve, BuildDataTarball, BuildControlTarball,     *)
(* Build) and the ar container encoder.                                    *)
(*                                                                         *)
(* Text is a sequence of one-character strings, a byte string a sequence   *)
(* of numbers, an optional (pointer) field a sequence of length 0 or 1.    *)
(***************************************************************************)
EXTENDS Integers, Sequences, FiniteSets, TLC

VARIABLES manifest, builder, out, last, ghost, prim, ar, hashWriter

vars == <<manifest, builder, out, last, ghost, prim, ar, hashWriter>>

(***************************************************************************)
(* Text helpers (strings, strconv, fmt)                                    *)
(***************************************************************************)

UpperChars == <<"A","B","C","D","E","F","G","H","I","J","K","L","M","N","O","P","Q","R","S","T","U","V","W","X","Y","Z">>

LowerChars == <<"a","b","c","d","e","f","g","h","i","j","k","l","m","n","o","p","q","r","s","t","u","v","w","x","y","z">>

DigitChars == <<"0","1","2","3","4","5","6","7","8","9">>

HexChars == <<"0","1","2","3","4","5","6","7","8","9","a","b","c","d","e","f">>

\* strings.ToLower on one character
ToLowerCh(c) ==
    IF \E i \in 1..Len(UpperChars) : UpperChars[i] = c
    THEN LowerChars[CHOOSE i \in 1..Len(UpperChars) : UpperChars[i] = c]
    ELSE c

\* strings.ToLower
ToLower(s) == [i \in 1..Len(s) |-> ToLowerCh(s[i])]

IsDigit(c) == \E i \in 1..Len(DigitChars) : DigitChars[i] = c

DigitVal(c) == (CHOOSE i \in 1..Len(DigitChars) : DigitChars[i] = c) - 1

RECURSIVE FormatUint(_, _)
\* strconv.FormatUint(n, base) for base <= 16: no leading zeros, "0" for zero
FormatUint(n, base) ==
    IF n < base THEN <<HexChars[n + 1]>>
    ELSE FormatUint(n \div base, base) \o <<HexChars[(n % base) + 1]>>

\* strconv.FormatInt(n, 10), also fmt's %d
FormatInt(n) == IF n < 0 THEN <<"-">> \o FormatUint(-n, 10) ELSE FormatUint(n, 10)

\* fmt's %02x of a byte
FormatHex02(b) == <<HexChars[(b \div 16) + 1], HexChars[(b % 16) + 1]>>

RECURSIVE DigitsValue(_, _, _)
\* the value of a digit string in the given base, accumulated left to right
DigitsValue(s, base, acc) ==
    IF s = <<>> THEN acc
    ELSE DigitsValue(Tail(s), base, acc * base + DigitVal(Head(s)))

AllDigits(s, base) == \A i \in 1..Len(s) : IsDigit(s[i]) /\ DigitVal(s[i]) < base

\* strconv.ParseUint(s, base, bitSize): no sign, at least one digit, range checked
ParseUint(s, base, maxVal) ==
    IF s = <<>> \/ ~AllDigits(s, base) THEN [ok |-> FALSE, val |-> 0]
    ELSE LET v == DigitsValue(s, base, 0)
         IN  IF v > maxVal THEN [ok |-> FALSE, val |-> maxVal] ELSE [ok |-> TRUE, val |-> v]

\* strconv.ParseInt(s, 10, 0): optional sign, then at least one digit
ParseInt(s) ==
    LET signed == s # <<>> /\ Head(s) \in {"+", "-"}
        digits == IF signed THEN Tail(s) ELSE s
    IN  IF digits = <<>> \/ ~AllDigits(digits, 10) THEN [ok |-> FALSE, val |-> 0]
        ELSE LET v == DigitsValue(digits, 10, 0)
             IN  [ok |-> TRUE, val |-> IF signed /\ Head(s) = "-" THEN -v ELSE v]

\* a Go map lookup: the map is a set of <<key, value>> pairs with distinct keys
MapHas(m, key) == \E p \in m : p[1] = key

MapGet(m, key) == (CHOOSE p \in m : p[1] = key)[2]

(***************************************************************************)
(* Entry type                                                              *)
(***************************************************************************)

TypeAUTO == 0

TypeDIR == 1

TypeREG == 2

TypeLNK == 3

TypeFIFO == 4

TypeCHR == 5

TypeBLK == 6

fileTypeNameArray == << <<"A","U","T","O">>, <<"D","I","R">>, <<"R","E","G">>, <<"L","N","K">>, <<"F","I","F","O">>, <<"C","H","R">>, <<"B","L","K">> >>

fileTypeAliasMap ==
    { << <<>>, TypeAUTO >>, << <<"a","u","t","o">>, TypeAUTO >>,
      << <<"d","i","r","e","c","t","o","r","y">>, TypeDIR >>, << <<"d","i","r">>, TypeDIR >>, << <<"d">>, TypeDIR >>,
      << <<"r","e","g","u","l","a","r","-","f","i","l","e">>, TypeREG >>, << <<"r","e","g","u","l","a","r">>, TypeREG >>, << <<"r","e","g">>, TypeREG >>,
      << <<"r">>, TypeREG >>, << <<"f","i","l","e">>, TypeREG >>, << <<"f">>, TypeREG >>, << <<"-">>, TypeREG >>,
      << <<"l","i","n","k">>, TypeLNK >>, << <<"l">>, TypeLNK >>, << <<"s","y","m","b","o","l","i","c","-","l","i","n","k">>, TypeLNK >>,
      << <<"s","y","m","-","l","i","n","k">>, TypeLNK >>, << <<"s","y","m","l","i","n","k">>, TypeLNK >>,
      << <<"f","i","f","o">>, TypeFIFO >>, << <<"p","i","p","e">>, TypeFIFO >>, << <<"p">>, TypeFIFO >>,
      << <<"c","h","a","r","-","d","e","v","i","c","e">>, TypeCHR >>, << <<"c","h","a","r","-","d","e","v">>, TypeCHR >>, << <<"c","h","a","r","d","e","v">>, TypeCHR >>,
      << <<"c","h","a","r">>, TypeCHR >>, << <<"c","h","r","-","d","e","v">>, TypeCHR >>, << <<"c","h","r","d","e","v">>, TypeCHR >>,
      << <<"c","h","r">>, TypeCHR >>, << <<"c">>, TypeCHR >>,
      << <<"b","l","o","c","k","-","d","e","v","i","c","e">>, TypeBLK >>, << <<"b","l","o","c","k","-","d","e","v">>, TypeBLK >>, << <<"b","l","o","c","k","d","e","v">>, TypeBLK >>,
      << <<"b","l","o","c","k">>, TypeBLK >>, << <<"b","l","k","-","d","e","v">>, TypeBLK >>, << <<"b","l","k","d","e","v">>, TypeBLK >>,
      << <<"b","l","k">>, TypeBLK >>, << <<"b">>, TypeBLK >> }

\* Type.IsValid
TypeIsValid(ft) == ft < Len(fileTypeNameArray)

\* Type.String
TypeString(ft) ==
    IF ft < Len(fileTypeNameArray) THEN fileTypeNameArray[ft + 1]
    ELSE <<"f","i","l","e","T","y","p","e","#">> \o FormatHex02(ft)

\* Type.Parse: err is TRUE when the text is no alias; the value is then 0
TypeParse(input) ==
    IF MapHas(fileTypeAliasMap, input)
    THEN [err |-> FALSE, value |-> MapGet(fileTypeAliasMap, input)]
    ELSE IF MapHas(fileTypeAliasMap, ToLower(input))
    THEN [err |-> FALSE, value |-> MapGet(fileTypeAliasMap, ToLower(input))]
    ELSE [err |-> TRUE, value |-> 0]

(***************************************************************************)
(* Permission                                                              *)
(***************************************************************************)

\* appendOctal: four octal digits of the low 12 bits
appendOctal(num) ==
    << HexChars[((num \div 512) % 8) + 1], HexChars[((num \div 64) % 8) + 1],
       HexChars[((num \div 8) % 8) + 1], HexChars[(num % 8) + 1] >>

\* Perm.String
PermString(perm) == appendOctal(perm)

\* Perm.Parse: empty text is permission 0; otherwise octal uint16, masked to 12 bits
PermParse(input) ==
    IF input = <<>> THEN [err |-> FALSE, value |-> 0]
    ELSE LET r == ParseUint(input, 8, 65535)
         IN  IF ~r.ok THEN [err |-> TRUE, value |-> 0]
             ELSE [err |-> FALSE, value |-> r.val % 4096]

(***************************************************************************)
(* Owner                                                                   *)
(***************************************************************************)

OwnerUnspecified == 0

OwnerByID == 1

OwnerByName == 2

\* Owner{}
OwnerZero == [Type |-> OwnerUnspecified, ID |-> 0, Name |-> <<>>]

\* ID(id)
OwnerID(id) == [Type |-> OwnerByID, ID |-> id, Name |-> <<>>]

\* Name(name)
OwnerName(name) == [Type |-> OwnerByName, ID |-> 0, Name |-> name]

\* Owner.String
OwnerString(owner) ==
    CASE owner.Type = OwnerByID -> <<"#">> \o FormatInt(owner.ID)
      [] owner.Type = OwnerByName -> owner.Name
      [] OTHER -> <<>>

\* Owner.Parse: never fails
OwnerParse(input) ==
    IF input = <<>> THEN [err |-> FALSE, value |-> OwnerZero]
    ELSE IF Head(input) = "#" /\ ParseInt(Tail(input)).ok
    THEN [err |-> FALSE, value |-> OwnerID(ParseInt(Tail(input)).val)]
    ELSE [err |-> FALSE, value |-> OwnerName(input)]

(***************************************************************************)
(* Hash algorithm                                                          *)
(***************************************************************************)

HashMD5 == 0

HashSHA1 == 1

HashSHA256 == 2

standardHashes == <<HashMD5, HashSHA1, HashSHA256>>

hashNameArray == << <<"M","D","5">>, <<"S","H","A","1">>, <<"S","H","A","2","5","6">> >>

hashFileNameArray == << <<"m","d","5","s","u","m">>, <<"s","h","a","1","s","u","m">>, <<"s","h","a","2","5","6","s","u","m">> >>

hashMap ==
    { << <<"m","d","5">>, HashMD5 >>, << <<"m","d","-","5">>, HashMD5 >>,
      << <<"s","h","a","1">>, HashSHA1 >>, << <<"s","h","a","-","1">>, HashSHA1 >>,
      << <<"s","h","a","2","5","6">>, HashSHA256 >>, << <<"s","h","a","-","2","5","6">>, HashSHA256 >>,
      << <<"s","h","a","2">>, HashSHA256 >>, << <<"s","h","a","-","2">>, HashSHA256 >> }

\* HashAlgorithm.String
HashString(algo) ==
    IF algo < Len(hashNameArray) THEN hashNameArray[algo + 1]
    ELSE <<"a","l","g","o","#">> \o FormatHex02(algo)

\* HashAlgorithm.FileName
HashFileName(algo) ==
    IF algo < Len(hashFileNameArray) THEN hashFileNameArray[algo + 1]
    ELSE <<"c","k","s","u","m",".">> \o FormatHex02(algo)

\* HashAlgorithm.Parse
HashParse(input) ==
    IF MapHas(hashMap, input)
    THEN [err |-> FALSE, value |-> MapGet(hashMap, input)]
    ELSE IF MapHas(hashMap, ToLower(input))
    THEN [err |-> FALSE, value |-> MapGet(hashMap, ToLower(input))]
    ELSE [err |-> TRUE, value |-> 0]

(***************************************************************************)
(* Compression algorithm                                                   *)
(***************************************************************************)

CompressAuto == 0

CompressNone == 1

CompressGZIP == 2

CompressBZIP2 == 3

CompressXZ == 4

CompressZSTD == 5

compressNameArray == << <<"a","u","t","o">>, <<"n","o","n","e">>, <<"g","z","i","p">>, <<"b","z","i","p","2">>, <<"x","z">>, <<"z","s","t","d">> >>

compressSuffixArray == << <<>>, <<>>, <<".","g","z">>, <<".","b","z","2">>, <<".","x","z">>, <<".","z","s","t","d">> >>

compressMap ==
    { << <<>>, CompressAuto >>, << <<"a","u","t","o">>, CompressAuto >>, << <<"n","o","n","e">>, CompressNone >>,
      << <<"g","z","i","p">>, CompressGZIP >>, << <<"g","z">>, CompressGZIP >>,
      << <<"b","z","i","p","2">>, CompressBZIP2 >>, << <<"b","z","i","p">>, CompressBZIP2 >>, << <<"b","z","2">>, CompressBZIP2 >>,
      << <<"x","z">>, CompressXZ >>, << <<"z","s","t","d">>, CompressZSTD >> }

\* CompressAlgorithm.String
CompressString(algo) ==
    IF algo < Len(compressNameArray) THEN compressNameArray[algo + 1]
    ELSE <<"c","o","m","p","r","e","s","s","i","o","n","#">> \o FormatHex02(algo)

\* the suffix made of a dot and the algorithm's name, to show what C26 owes to the
\* suffixes of compressSuffixArray
CompressSuffix_FromName(algo) ==
    IF algo \in {CompressAuto, CompressNone} THEN <<>> ELSE <<".">> \o CompressString(algo)

\* CompressAlgorithm.Suffix
CompressSuffix(algo) ==
    IF algo < Len(compressSuffixArray) THEN compressSuffixArray[algo + 1] ELSE <<>>

\* CompressAlgorithm.Parse
CompressParse(input) ==
    IF MapHas(compressMap, input)
    THEN [err |-> FALSE, value |-> MapGet(compressMap, input)]
    ELSE IF MapHas(compressMap, ToLower(input))
    THEN [err |-> FALSE, value |-> MapGet(compressMap, ToLower(input))]
    ELSE [err |-> TRUE, value |-> 0]

(***************************************************************************)
(* Paths and the syntactic validators                                      *)
(***************************************************************************)

SeqToSet(s) == {s[i] : i \in 1..Len(s)}

\* the character class [0-9a-z]
LowerAlnum == SeqToSet(LowerChars) \cup SeqToSet(DigitChars)

\* the character class [0-9A-Za-z]
Alnum == SeqToSet(UpperChars) \cup SeqToSet(LowerChars) \cup SeqToSet(DigitChars)

IsLowerAlnum(c) == c \in LowerAlnum

IsAlnum(c) == c \in Alnum

\* strings.HasSuffix(s, "/")
HasSlashSuffix(s) == s # <<>> /\ s[Len(s)] = "/"

RECURSIVE TrimRightSlash(_)
\* strings.TrimRight(s, "/"): every trailing slash is removed
TrimRightSlash(s) ==
    IF HasSlashSuffix(s) THEN TrimRightSlash(SubSeq(s, 1, Len(s) - 1)) ELSE s

RECURSIVE SplitSlash(_)
\* the components of s between slashes; empty components are kept
SplitSlash(s) ==
    IF \A i \in 1..Len(s) : s[i] # "/" THEN <<s>>
    ELSE LET k == CHOOSE i \in 1..Len(s) : s[i] = "/" /\ \A j \in 1..(i - 1) : s[j] # "/"
         IN  <<SubSeq(s, 1, k - 1)>> \o SplitSlash(SubSeq(s, k + 1, Len(s)))

RECURSIVE JoinSlash(_)
JoinSlash(comps) ==
    IF comps = <<>> THEN <<>>
    ELSE IF Len(comps) = 1 THEN comps[1]
    ELSE comps[1] \o <<"/">> \o JoinSlash(Tail(comps))

RECURSIVE CleanComps(_, _, _)
\* the component pass of path.Clean: "" and "." are dropped, ".." removes the
\* component before it, or is kept (unrooted) or dropped (rooted) when there is none
CleanComps(comps, stack, rooted) ==
    IF comps = <<>> THEN stack
    ELSE LET c == Head(comps)
         IN  IF c = <<>> \/ c = <<".">> THEN CleanComps(Tail(comps), stack, rooted)
             ELSE IF c = <<".", ".">>
             THEN IF stack # <<>> /\ stack[Len(stack)] # <<".", ".">>
                  THEN CleanComps(Tail(comps), SubSeq(stack, 1, Len(stack) - 1), rooted)
                  ELSE IF rooted THEN CleanComps(Tail(comps), stack, rooted)
                  ELSE CleanComps(Tail(comps), Append(stack, c), rooted)
             ELSE CleanComps(Tail(comps), Append(stack, c), rooted)

\* path.Clean
PathClean(p) ==
    IF p = <<>> THEN <<".">>
    ELSE LET rooted == Head(p) = "/"
             body == JoinSlash(CleanComps(SplitSlash(p), <<>>, rooted))
         IN  IF rooted THEN <<"/">> \o body
             ELSE IF body = <<>> THEN <<".">> ELSE body

\* path.Dir: everything up to the last slash, cleaned
PathDir(p) ==
    LET slashes == {i \in 1..Len(p) : p[i] = "/"}
        k == IF slashes = {} THEN 0 ELSE CHOOSE i \in slashes : \A j \in slashes : j <= i
    IN  PathClean(SubSeq(p, 1, k))

\* nameComponent: (?:[.-]|_+)?[0-9A-Za-z]+(?:(?:[.-]|_+)[0-9A-Za-z]+)*
IsNameComponent(c) ==
    /\ c # <<>>
    /\ \A i \in 1..Len(c) : IsAlnum(c[i]) \/ c[i] \in {".", "-", "_"}
    /\ IsAlnum(c[Len(c)])
    /\ \A i \in 1..(Len(c) - 1) :
          (~IsAlnum(c[i]) /\ ~IsAlnum(c[i + 1])) => (c[i] = "_" /\ c[i + 1] = "_")

\* isValidUnixPath, nameRx: ^(?:[.]|(?:comp/)*comp)/?$
isValidUnixPath(str) ==
    LET body == IF HasSlashSuffix(str) THEN SubSeq(str, 1, Len(str) - 1) ELSE str
    IN  \/ body = <<".">>
        \/ /\ body # <<>>
           /\ \A c \in SeqToSet(SplitSlash(body)) : IsNameComponent(c)

\* a run of tokens over a character class, separated by single separator characters
IsTokenRun(s, seps, class) ==
    /\ s # <<>>
    /\ \A i \in 1..Len(s) : s[i] \in class \/ s[i] \in seps
    /\ s[1] \in class
    /\ s[Len(s)] \in class
    /\ \A i \in 1..(Len(s) - 1) : s[i] \in class \/ s[i + 1] \in class

\* isValidPackage, packageRx: ^[0-9a-z][0-9a-z]+(?:[.+-][0-9a-z]+)*$
isValidPackage(str) ==
    /\ IsTokenRun(str, {".", "+", "-"}, LowerAlnum)
    /\ Len(str) >= 2
    /\ IsLowerAlnum(str[2])

\* isValidVersion, versionRx: ^(?:[1-9][0-9]*[:])?[0-9][0-9A-Za-z]*(?:[.~+-][0-9A-Za-z]+)*$
isValidVersion(str) ==
    LET colons == {i \in 1..Len(str) : str[i] = ":"}
        k == IF colons = {} THEN 0 ELSE CHOOSE i \in colons : \A j \in colons : i <= j
        epoch == SubSeq(str, 1, k - 1)
        rest == SubSeq(str, k + 1, Len(str))
    IN  /\ k # 0 => /\ epoch # <<>>
                    /\ \A i \in 1..Len(epoch) : IsDigit(epoch[i])
                    /\ epoch[1] # "0"
        /\ IsTokenRun(rest, {".", "~", "+", "-"}, Alnum)
        /\ IsDigit(rest[1])

\* isValidArch, archRx: ^[0-9A-Za-z]+(?:[-][0-9A-Za-z]+)*$
isValidArch(str) == IsTokenRun(str, {"-"}, Alnum)

\* isValidSection, sectionRx: ^[0-9a-z]+(?:[/-][0-9a-z]+)*$
isValidSection(str) == IsTokenRun(str, {"/", "-"}, LowerAlnum)

\* isValidPriority, priorityRx
isValidPriority(str) ==
    str \in { <<"r","e","q","u","i","r","e","d">>, <<"i","m","p","o","r","t","a","n","t">>, <<"s","t","a","n","d","a","r","d">>, <<"o","p","t","i","o","n","a","l">>, <<"e","x","t","r","a">> }

\* isValidDepends, isValidMaintainer, isValidURL, isValidBuiltUsing accept everything
isValidDepends(str) == TRUE

isValidMaintainer(str) == TRUE

isValidURL(str) == TRUE

isValidBuiltUsing(str) == TRUE

\* the characters of the model's alphabet in Unicode category Cc and Z
IsControlChar(c) == c \in {"\n", "\t", "\r"}

IsSpaceChar(c) == c = " "

\* isValidDescriptionLine: no control character, and the line does not end in a space
isValidDescriptionLine(str) ==
    /\ \A i \in 1..Len(str) : ~IsControlChar(str[i])
    /\ str = <<>> \/ ~IsSpaceChar(str[Len(str)])

(***************************************************************************)
(* Errors and panics                                                       *)
(*                                                                         *)
(* An error is the text of fmt.Errorf up to its arguments: "files[i]: "    *)
(* when index >= 0, then "field: msg".  A panic is the text it carries.    *)
(***************************************************************************)

NoErr == [nil |-> TRUE, index |-> -1, field |-> "", msg |-> ""]

Err(field, msg) == [nil |-> FALSE, index |-> -1, field |-> field, msg |-> msg]

\* fmt.Errorf("files[%d]: %w", index, err)
ErrAt(index, err) == [err EXCEPT !.index = index]

NoPanic == ""

(***************************************************************************)
(* The content root: what fs.Stat reports and what Open and Read yield.    *)
(* A file whose size differs from the length of its content is one that    *)
(* changed between Resolve and the build; reading a directory fails.       *)
(***************************************************************************)

RootFS ==
    { [path |-> <<"a">>, size |-> 2, content |-> <<1, 2>>, readErr |-> FALSE],
      [path |-> <<"d","/","b">>, size |-> 1, content |-> <<3>>, readErr |-> FALSE],
      [path |-> <<"e">>, size |-> 0, content |-> <<>>, readErr |-> FALSE],
      [path |-> <<"t","e","n">>, size |-> 10, content |-> <<1, 2, 3, 1, 2, 3, 1, 2, 3, 1>>, readErr |-> FALSE],
      [path |-> <<"b","l","k">>, size |-> 4096, content |-> <<1>>, readErr |-> FALSE],
      [path |-> <<"b","i","g">>, size |-> 4097, content |-> <<1, 2>>, readErr |-> FALSE],
      [path |-> <<"g","r","o","w">>, size |-> 1, content |-> <<1, 2, 3>>, readErr |-> FALSE],
      [path |-> <<"d">>, size |-> 4096, content |-> <<>>, readErr |-> TRUE] }

FSHas(fileSystem, path) == \E f \in fileSystem : f.path = path

FSGet(fileSystem, path) == CHOOSE f \in fileSystem : f.path = path

(***************************************************************************)
(* File entry                                                              *)
(***************************************************************************)

\* a nil map of digests
NoHashes == [a \in {} |-> <<>>]

\* a File as deserialized: the private fields are zero
NewFile(name, type) ==
    [Name |-> name, Type |-> type, IsConf |-> FALSE, Perm |-> 0,
     User |-> OwnerZero, Group |-> OwnerZero, MTime |-> 0,
     Major |-> <<>>, Minor |-> <<>>, Path |-> <<>>, Text |-> <<>>, Bytes |-> <<>>,
     Link |-> <<>>, isResolved |-> FALSE, size |-> 0, isHashed |-> FALSE,
     hashes |-> NoHashes]

\* the device check asking a device for its major only, to show what C17 owes to
\* the test of the minor
validateDevice_MajorOnly(file) ==
    IF file.Type = TypeCHR \/ file.Type = TypeBLK
    THEN IF file.Major = <<>> THEN Err("major", "missing required field") ELSE NoErr
    ELSE IF file.Major # <<>> THEN Err("major", "unexpected value for field")
         ELSE IF file.Minor # <<>> THEN Err("minor", "unexpected value for field")
         ELSE NoErr

\* the last check of validateImpl: major and minor
validateDevice(file) ==
    IF file.Type = TypeCHR \/ file.Type = TypeBLK
    THEN IF file.Major = <<>> THEN Err("major", "missing required field")
         ELSE IF file.Minor = <<>> THEN Err("major", "missing required field")
         ELSE NoErr
    ELSE IF file.Major # <<>> THEN Err("major", "unexpected value for field")
         ELSE IF file.Minor # <<>> THEN Err("minor", "unexpected value for field")
         ELSE NoErr

\* the link check of validateImpl
validateLink(file) ==
    IF file.Type = TypeLNK
    THEN IF file.Link = <<>> THEN Err("link", "missing required field")
         ELSE IF file.Link[1] # PathClean(file.Link[1])
         THEN Err("link", "value is not canonical")
         ELSE NoErr
    ELSE IF file.Link # <<>> THEN Err("link", "unexpected value for field")
         ELSE NoErr

\* the content-source checks of validateImpl
validateContent(file) ==
    IF file.Type = TypeREG
    THEN IF file.Path # <<>> /\ ~isValidUnixPath(file.Path[1])
         THEN Err("path", "invalid Unix path")
         ELSE IF file.Path # <<>> /\ HasSlashSuffix(file.Path[1])
         THEN Err("path", "unexpected trailing '/'")
         ELSE IF file.Path # <<>> /\ file.Text # <<>>
         THEN Err("text", "conflict with field \"path\"")
         ELSE IF file.Path # <<>> /\ file.Bytes # <<>>
         THEN Err("bytes", "conflict with field \"path\"")
         ELSE IF file.Text # <<>> /\ file.Bytes # <<>>
         THEN Err("bytes", "conflict with field \"text\"")
         ELSE NoErr
    ELSE IF file.IsConf THEN Err("isConf", "conflict with field \"type\"")
         ELSE IF file.Path # <<>> THEN Err("path", "unexpected value for field")
         ELSE IF file.Text # <<>> THEN Err("text", "unexpected value for field")
         ELSE IF file.Bytes # <<>> THEN Err("bytes", "unexpected value for field")
         ELSE NoErr

\* the fix-up without the change of the name, to show what C16 owes to it
normalizeFile_KeepName(file) ==
    IF file.Type = TypeAUTO
    THEN [file EXCEPT !.Type = IF HasSlashSuffix(file.Name) THEN TypeDIR ELSE TypeREG]
    ELSE file

\* validateImpl's fix-up of Type and Name: Auto becomes a concrete type, and a
\* directory's name gets exactly one trailing slash
normalizeFile(file) ==
    LET typed == IF file.Type = TypeAUTO
                 THEN [file EXCEPT !.Type = IF HasSlashSuffix(file.Name) THEN TypeDIR ELSE TypeREG]
                 ELSE file
    IN  IF typed.Type = TypeDIR
        THEN [typed EXCEPT !.Name = TrimRightSlash(typed.Name) \o <<"/">>]
        ELSE typed

\* the first error of a sequence of check results, in the order of the checks
FirstErr(errs) ==
    IF \A i \in 1..Len(errs) : errs[i].nil THEN NoErr
    ELSE errs[CHOOSE i \in 1..Len(errs) : ~errs[i].nil /\ \A j \in 1..(i - 1) : errs[j].nil]

\* validateImpl from the fix-up of Type and Name on; f is the fixed-up file
validateFields(f) ==
    IF f.Type # TypeDIR /\ (f.Name = <<".">> \/ HasSlashSuffix(f.Name))
    THEN [err |-> Err("name", "value is only appropriate for a directory"), file |-> f]
    ELSE [err |-> FirstErr(<<validateContent(f), validateLink(f), validateDevice(f)>>),
          file |-> f]

\* File.validateImpl, a pointer method: the file it returns is the receiver afterwards
validateImpl(file) ==
    IF file.Name = <<>> THEN [err |-> Err("name", "missing required field"), file |-> file]
    ELSE IF ~isValidUnixPath(file.Name)
    THEN [err |-> Err("name", "invalid Unix path"), file |-> file]
    ELSE IF ~TypeIsValid(file.Type)
    THEN [err |-> Err("type", "invalid value"), file |-> file]
    ELSE validateFields(normalizeFile(file))

\* File.Validate, a value method: the caller's file is left as it was
FileValidate(file) == validateImpl(file).err

\* File.Resolve after its validateImpl call returned v: the size of a regular file
\* is the length of its inline content, or else what stat reports
statFile(v, fileSystem) ==
    LET statNeeded == v.file.Type = TypeREG /\ v.file.Bytes = <<>> /\ v.file.Text = <<>>
        statPath == IF v.file.Path # <<>> THEN v.file.Path[1] ELSE v.file.Name
        size == IF v.file.Type # TypeREG THEN 0
                ELSE IF v.file.Bytes # <<>> THEN Len(v.file.Bytes[1])
                ELSE IF v.file.Text # <<>> THEN Len(v.file.Text[1])
                ELSE FSGet(fileSystem, statPath).size
    IN  IF ~v.err.nil THEN v
        ELSE IF statNeeded /\ ~FSHas(fileSystem, statPath)
        THEN [err |-> Err("failed to stat", "file does not exist"), file |-> v.file]
        ELSE [err |-> NoErr, file |-> [v.file EXCEPT !.size = size, !.isResolved = TRUE]]

\* File.Resolve, a pointer method
FileResolve(file, fileSystem) == statFile(validateImpl(file), fileSystem)
(***************************************************************************)
(* Manifest                                                                *)
(***************************************************************************)

RECURSIVE Pow2(_)
Pow2(n) == IF n = 0 THEN 1 ELSE 2 * Pow2(n - 1)

\* pad: size rounded up to a multiple of 2^shift, (size + x) &^ x with x = 2^shift - 1
\* pad without the rounding, to show what C6 owes to pad
pad_NoRounding(size, shift) == size

pad(size, shift) == ((size + (Pow2(shift) - 1)) \div Pow2(shift)) * Pow2(shift)

\* padSigned: pad applied to the magnitude, the sign restored
padSigned(size, shift) == IF size < 0 THEN -pad(-size, shift) ELSE pad(size, shift)

\* the shift Resolve passes to padSigned: blocks of 4096 bytes
BlockShift == 12

\* Manifest.validatePre: the metadata checks, in order
validatePre(m) ==
    IF m.Package = <<>> THEN Err("package", "missing required field")
    ELSE IF ~isValidPackage(m.Package) THEN Err("package", "invalid Debian package name")
    ELSE IF m.Version = <<>> THEN Err("version", "missing required field")
    ELSE IF ~isValidVersion(m.Version) THEN Err("version", "invalid Debian package version")
    ELSE IF m.Arch = <<>> THEN Err("arch", "missing required field")
    ELSE IF ~isValidArch(m.Arch) THEN Err("version", "invalid Debian package architecture")
    ELSE IF m.Section # <<>> /\ ~isValidSection(m.Section)
    THEN Err("version", "invalid Debian package section")
    ELSE IF m.Priority # <<>> /\ ~isValidPriority(m.Priority)
    THEN Err("version", "invalid Debian package priority")
    ELSE IF m.Essential # <<>> /\ ~isValidDepends(m.Essential)
    THEN Err("essential", "invalid Debian package dependency spec")
    ELSE IF m.Depends # <<>> /\ ~isValidDepends(m.Depends)
    THEN Err("depends", "invalid Debian package dependency spec")
    ELSE IF m.PreDepends # <<>> /\ ~isValidDepends(m.PreDepends)
    THEN Err("preDepends", "invalid Debian package dependency spec")
    ELSE IF m.Recommends # <<>> /\ ~isValidDepends(m.Recommends)
    THEN Err("recommends", "invalid Debian package dependency spec")
    ELSE IF m.Suggests # <<>> /\ ~isValidDepends(m.Suggests)
    THEN Err("suggests", "invalid Debian package dependency spec")
    ELSE IF m.Enhances # <<>> /\ ~isValidDepends(m.Enhances)
    THEN Err("enhances", "invalid Debian package dependency spec")
    ELSE IF m.Breaks # <<>> /\ ~isValidDepends(m.Breaks)
    THEN Err("breaks", "invalid Debian package dependency spec")
    ELSE IF m.Conflicts # <<>> /\ ~isValidDepends(m.Conflicts)
    THEN Err("conflicts", "invalid Debian package dependency spec")
    ELSE IF m.Maintainer = <<>> THEN Err("maintainer", "missing required field")
    ELSE IF ~isValidMaintainer(m.Maintainer) THEN Err("maintainer", "invalid Maintainer line")
    ELSE IF m.HomePage # <<>> /\ ~isValidURL(m.HomePage) THEN Err("homePage", "invalid URL")
    ELSE IF m.BuiltUsing # <<>> /\ ~isValidBuiltUsing(m.BuiltUsing)
    THEN Err("builtUsing", "invalid Built-Using line")
    ELSE IF m.ShortDescription = <<>> THEN Err("shortDescription", "missing required field")
    ELSE IF ~isValidDescriptionLine(m.ShortDescription)
    THEN Err("shortDescription", "invalid Description line")
    ELSE IF \E i \in 1..Len(m.LongDescription) : ~isValidDescriptionLine(m.LongDescription[i])
    THEN Err("longDescription", "invalid Description continuation line")
    ELSE NoErr

\* validatePost's first loop: the directories known before any entry is read.
\* The result is the set, or the 0-based index of the first invalid implicitDirs entry.
implicitDirsKnown(dirs) ==
    LET bad == {i \in 1..Len(dirs) : ~isValidUnixPath(dirs[i])}
    IN  IF bad # {}
        THEN [badIndex |-> (CHOOSE i \in bad : \A j \in bad : i <= j) - 1, known |-> {}]
        ELSE [badIndex |-> -1,
              known |-> {<<".">>} \cup {TrimRightSlash(dirs[i]) : i \in 1..Len(dirs)}]

\* validatePost's second loop with every directory of the list known from the
\* start, to show what C7 owes to the order of the list
validatePostFiles_AnyOrder(files, i, seen, known) ==
    LET all == known \cup {TrimRightSlash(files[j].Name) : j \in {k \in 1..Len(files) : files[k].Type = TypeDIR}}
        bad == {j \in 1..Len(files) :
                  \/ \E k \in 1..(j - 1) : files[k].Name = files[j].Name
                  \/ PathDir(TrimRightSlash(files[j].Name)) \notin all}
        first == CHOOSE j \in bad : \A k \in bad : j <= k
    IN  IF bad = {} THEN NoErr
        ELSE IF \E k \in 1..(first - 1) : files[k].Name = files[first].Name
        THEN ErrAt(first - 1, Err("duplicate file", "has the same name"))
        ELSE ErrAt(first - 1, Err("directory", "might not exist yet"))

RECURSIVE validatePostFiles(_, _, _, _)
\* validatePost's second loop, from the entry at 1-based position i on
validatePostFiles(files, i, seen, known) ==
    IF i > Len(files) THEN NoErr
    ELSE LET file == files[i]
             name == TrimRightSlash(file.Name)
             dir == PathDir(name)
         IN  IF file.Name \in seen THEN ErrAt(i - 1, Err("duplicate file", "has the same name"))
             ELSE IF dir \notin known
             THEN ErrAt(i - 1, Err("directory", "might not exist yet"))
             ELSE validatePostFiles(files, i + 1, seen \cup {file.Name},
                                    IF file.Type = TypeDIR THEN known \cup {name} ELSE known)

\* Manifest.validatePost: the cross-entry checks
validatePost(m) ==
    LET imp == implicitDirsKnown(m.ImplicitDirs)
    IN  IF imp.badIndex >= 0 THEN Err("implicitDirs", "invalid Unix path")
        ELSE validatePostFiles(m.Files, 1, {}, imp.known)

\* the 0-based index and the error of the first entry File.Validate rejects
firstInvalidFile(files) ==
    LET errs == [i \in 1..Len(files) |-> FileValidate(files[i])]
        bad == {i \in 1..Len(files) : ~errs[i].nil}
    IN  IF bad = {} THEN NoErr
        ELSE ErrAt((CHOOSE i \in bad : \A j \in bad : i <= j) - 1,
                   errs[CHOOSE i \in bad : \A j \in bad : i <= j])

\* Manifest.Validate, a value method: each entry is validated on a copy, so
\* validatePost reads the entries as the caller wrote them
ManifestValidate(m) == FirstErr(<<validatePre(m), firstInvalidFile(m.Files), validatePost(m)>>)

RECURSIVE resolveFiles(_, _, _, _)
\* one turn of the loop of Manifest.Resolve: r is what File.Resolve returned for
\* the entry at 1-based position i, which is left as File.Resolve left it
resolveNext(files, i, installedSize, fileSystem, r) ==
    IF ~r.err.nil
    THEN [err |-> ErrAt(i - 1, r.err), files |-> [files EXCEPT ![i] = r.file],
          installedSize |-> installedSize]
    ELSE resolveFiles([files EXCEPT ![i] = r.file], i + 1,
                      installedSize + padSigned(r.file.size, BlockShift), fileSystem)

\* the loop of Manifest.Resolve from the entry at 1-based position i on: each entry
\* is resolved in place, and the loop stops at the first entry that fails
resolveFiles(files, i, installedSize, fileSystem) ==
    IF i > Len(files) THEN [err |-> NoErr, files |-> files, installedSize |-> installedSize]
    ELSE resolveNext(files, i, installedSize, fileSystem, FileResolve(files[i], fileSystem))

\* the end of Manifest.Resolve: post is what validatePost returned for m
resolveDone(m, installedSize, post) ==
    IF ~post.nil THEN [err |-> post, manifest |-> m]
    ELSE [err |-> NoErr,
          manifest |-> [m EXCEPT !.installedSize = installedSize, !.isResolved = TRUE]]

\* Manifest.Resolve after its loop returned r
resolvePost(m, r) ==
    IF ~r.err.nil THEN [err |-> r.err, manifest |-> [m EXCEPT !.Files = r.files]]
    ELSE resolveDone([m EXCEPT !.Files = r.files], r.installedSize,
                     validatePost([m EXCEPT !.Files = r.files]))

\* Manifest.Resolve after validatePre returned pre
resolvePre(m, fileSystem, pre) ==
    IF ~pre.nil THEN [err |-> pre, manifest |-> m]
    ELSE resolvePost(m, resolveFiles(m.Files, 1, 0, fileSystem))

\* Manifest.Resolve, a pointer method: the manifest it returns is the receiver afterwards
ManifestResolve(m, fileSystem) == resolvePre(m, fileSystem, validatePre(m))

\* one "Key: value\n" line of the control file
ControlLine(key, value) == key \o <<":"," ">> \o value \o <<"\n">>

\* an optional field written even when empty, to show what C13 owes to the test
\* for the empty string
OptionalLine_Always(key, value) == ControlLine(key, value)

\* a field of the control file that is left out when empty
OptionalLine(key, value) == IF value # <<>> THEN ControlLine(key, value) ELSE <<>>

RECURSIVE ContinuationLines(_)
\* the long description: " line\n" each, an empty line as " .\n"
ContinuationLines(lines) ==
    IF lines = <<>> THEN <<>>
    ELSE (IF Head(lines) = <<>> THEN <<" ",".","\n">> ELSE <<" ">> \o Head(lines) \o <<"\n">>)
         \o ContinuationLines(Tail(lines))

\* Manifest.ControlFile, for a resolved manifest (it panics otherwise)
ControlFile(m) ==
    ControlLine(<<"P","a","c","k","a","g","e">>, m.Package)
    \o ControlLine(<<"V","e","r","s","i","o","n">>, m.Version)
    \o OptionalLine(<<"S","e","c","t","i","o","n">>, m.Section)
    \o OptionalLine(<<"P","r","i","o","r","i","t","y">>, m.Priority)
    \o OptionalLine(<<"A","r","c","h","i","t","e","c","t","u","r","e">>, m.Arch)
    \o OptionalLine(<<"E","s","s","e","n","t","i","a","l">>, m.Essential)
    \o OptionalLine(<<"D","e","p","e","n","d","s">>, m.Depends)
    \o OptionalLine(<<"P","r","e","-","D","e","p","e","n","d","s">>, m.PreDepends)
    \o OptionalLine(<<"R","e","c","o","m","m","e","n","d","s">>, m.Recommends)
    \o OptionalLine(<<"S","u","g","g","e","s","t","s">>, m.Suggests)
    \o OptionalLine(<<"E","n","h","a","n","c","e","s">>, m.Enhances)
    \o OptionalLine(<<"B","r","e","a","k","s">>, m.Breaks)
    \o OptionalLine(<<"C","o","n","f","l","i","c","t","s">>, m.Conflicts)
    \o ControlLine(<<"I","n","s","t","a","l","l","e","d","-","S","i","z","e">>, FormatInt(m.installedSize))
    \o ControlLine(<<"M","a","i","n","t","a","i","n","e","r">>, m.Maintainer)
    \o OptionalLine(<<"H","o","m","e","p","a","g","e">>, m.HomePage)
    \o OptionalLine(<<"B","u","i","l","t","-","U","s","i","n","g">>, m.BuiltUsing)
    \o ControlLine(<<"D","e","s","c","r","i","p","t","i","o","n">>, m.ShortDescription)
    \o ContinuationLines(m.LongDescription)

RECURSIVE JoinLines(_)
\* each line followed by a newline
JoinLines(lines) ==
    IF lines = <<>> THEN <<>> ELSE Head(lines) \o <<"\n">> \o JoinLines(Tail(lines))

RECURSIVE ConfNames(_)
ConfNames(files) ==
    IF files = <<>> THEN <<>>
    ELSE (IF Head(files).IsConf THEN <<Head(files).Name>> ELSE <<>>) \o ConfNames(Tail(files))

\* Manifest.ConfFiles: a []byte as an optional, <<>> for nil.  The buffer is never
\* grown, so with no entry marked isConf its bytes are the nil slice.
ConfFiles(m) ==
    IF ConfNames(m.Files) = <<>> THEN <<>> ELSE <<JoinLines(ConfNames(m.Files))>>

ScriptPreamble == <<"#","!","/","b","i","n","/","b","a","s","h","\n","s","e","t"," ","-","e","u","o"," ","p","i","p","e","f","a","i","l","\n","u","m","a","s","k"," ","0","2","2","\n","c","d"," ","/","\n">>

\* the body shared by the four script renderers: nil without lines
Script(lines) == IF Len(lines) <= 0 THEN <<>> ELSE <<ScriptPreamble \o JoinLines(lines)>>

\* Manifest.PreInstallScript
PreInstallScript(m) == Script(m.PreInstall)

\* Manifest.PostInstallScript
PostInstallScript(m) == Script(m.PostInstall)

\* Manifest.PreRemoveScript
PreRemoveScript(m) == Script(m.PreRemove)

\* Manifest.PostRemoveScript
PostRemoveScript(m) == Script(m.PostRemove)

(***************************************************************************)
(* Digests.  The three digest functions are library code; the model takes  *)
(* a streaming stand-in with a two-byte sum, one per algorithm: a state    *)
(* that every byte written updates, as hash.Hash does.                     *)
(***************************************************************************)

\* HashAlgorithm.New: a fresh hasher (the method panics for an unknown algorithm)
HashNew(algo) == [algo |-> algo, acc |-> algo + 1]

HashImplemented(algo) == algo \in {HashMD5, HashSHA1, HashSHA256}

RECURSIVE hasherWrite(_, _)
\* hash.Hash.Write: the bytes of p are absorbed in order
hasherWrite(h, p) ==
    IF p = <<>> THEN h
    ELSE hasherWrite([h EXCEPT !.acc = (h.acc * (31 + 2 * h.algo) + Head(p) + 1) % 65536],
                     Tail(p))

\* hash.Hash.Sum(nil)
hasherSum(h) == <<h.acc \div 256, h.acc % 256>>

\* the digest of a whole byte string, computed independently of any writer
Digest(algo, bytes) == hasherSum(hasherWrite(HashNew(algo), bytes))

RECURSIVE HexEncode(_)
\* hex.EncodeToString: two lowercase hex digits per byte
HexEncode(bytes) ==
    IF bytes = <<>> THEN <<>> ELSE FormatHex02(Head(bytes)) \o HexEncode(Tail(bytes))

(***************************************************************************)
(* The tar writer (archive/tar), at its interface: an entry is a header    *)
(* and the body bytes written so far; a regular entry takes exactly        *)
(* hdr.Size body bytes, any other entry none.                              *)
(***************************************************************************)

NewTarWriter == <<>>

\* the body bytes the entry still takes
tarRoom(entry) ==
    IF entry.hdr.Typeflag = "TypeReg" THEN entry.hdr.Size - Len(entry.body) ELSE 0

\* the open entry still misses body bytes; WriteHeader and Close then fail
tarPending(tw) == tw # <<>> /\ tarRoom(tw[Len(tw)]) > 0

\* tar.Writer.WriteHeader
tarWriteHeader(tw, hdr) ==
    IF tarPending(tw) THEN [err |-> TRUE, tw |-> tw]
    ELSE [err |-> FALSE, tw |-> Append(tw, [hdr |-> hdr, body |-> <<>>])]

\* tar.Writer.Write: what fits the entry is written; more is ErrWriteTooLong
tarWrite(tw, p) ==
    LET room == tarRoom(tw[Len(tw)])
        n == IF Len(p) <= room THEN Len(p) ELSE room
    IN  [n |-> n, err |-> Len(p) > room,
         tw |-> [tw EXCEPT ![Len(tw)].body = @ \o SubSeq(p, 1, n)]]

(***************************************************************************)
(* hashWriter and io.Copy                                                  *)
(***************************************************************************)

\* the hashers fed one byte short, to show what C3 owes to hashWriter.Write
hashersFeed_DropLast(hashers, p, n) ==
    [a \in DOMAIN hashers |-> hasherWrite(hashers[a], SubSeq(p, 1, n - 1))]

\* the hashers hashWriter.Write feeds: the first n bytes of p, the bytes the
\* underlying writer accepted
hashersFeed(hashers, p, n) ==
    [a \in DOMAIN hashers |-> hasherWrite(hashers[a], SubSeq(p, 1, n))]

\* the hashers fed the whole of p whatever the underlying writer accepted, to show
\* what C21 owes to the p[:n] of hashWriter.Write
hashWriterFed_WholeChunk(hw, p, w) ==
    [n |-> w.n, err |-> w.err,
     hw |-> [file |-> w.tw,
             hashers |-> IF w.n > 0 THEN hashersFeed(hw.hashers, p, Len(p)) ELSE hw.hashers]]

\* hashWriter.Write after the underlying write returned w: what the tar writer
\* accepted goes to every hasher
hashWriterFed(hw, p, w) ==
    [n |-> w.n, err |-> w.err,
     hw |-> [file |-> w.tw,
             hashers |-> IF w.n > 0 THEN hashersFeed(hw.hashers, p, w.n) ELSE hw.hashers]]

\* hashWriter.Write: the bytes go to the tar writer first
hashWriterWrite(hw, p) == hashWriterFed(hw, p, tarWrite(hw.file, p))

\* the length of the chunks io.Copy hands to Write
ChunkLen == 2

RECURSIVE ioCopy(_, _, _)
\* io.Copy after the Write of a chunk of k bytes returned w
ioCopyNext(w, k, content, readErr) ==
    IF w.err \/ w.n < k THEN [err |-> "write", hw |-> w.hw]
    ELSE ioCopy(w.hw, SubSeq(content, k + 1, Len(content)), readErr)

\* the length of the next chunk
ChunkOf(content) == IF Len(content) < ChunkLen THEN Len(content) ELSE ChunkLen

\* io.Copy(hw, rc): chunk by chunk until the content ends, a write fails
\* ("write") or the read fails ("read"); err is "" on success
ioCopy(hw, content, readErr) ==
    IF content = <<>> THEN [err |-> IF readErr THEN "read" ELSE "", hw |-> hw]
    ELSE ioCopyNext(hashWriterWrite(hw, SubSeq(content, 1, ChunkOf(content))),
                    ChunkOf(content), content, readErr)

(***************************************************************************)
(* File.AsTarHeader and File.Reader                                        *)
(***************************************************************************)

\* the default permission of AsTarHeader by type: 0755, 0644, 0777, else 0600
defaultPerm(type) ==
    CASE type = TypeDIR -> 493
      [] type = TypeREG -> 420
      [] type = TypeLNK -> 511
      [] OTHER -> 384

\* File.AsTarHeader, for a resolved file (it panics otherwise).  Mode is the pair
\* of the unixMode constant and the permission bits or-ed into it.
AsTarHeader(file) ==
    [Typeflag |-> CASE file.Type = TypeDIR -> "TypeDir"
                    [] file.Type = TypeREG -> "TypeReg"
                    [] file.Type = TypeLNK -> "TypeSymlink"
                    [] file.Type = TypeFIFO -> "TypeFifo"
                    [] file.Type = TypeCHR -> "TypeChar"
                    [] file.Type = TypeBLK -> "TypeBlock"
                    [] OTHER -> "0",
     Name |-> file.Name,
     Mode |-> [fmt |-> CASE file.Type = TypeDIR -> "unixModeDIR"
                         [] file.Type = TypeREG -> "unixModeREG"
                         [] file.Type = TypeLNK -> "unixModeLNK"
                         [] file.Type = TypeFIFO -> "unixModeFIFO"
                         [] file.Type = TypeCHR -> "unixModeCHR"
                         [] file.Type = TypeBLK -> "unixModeBLK"
                         [] OTHER -> "unixModeFMT",
               perm |-> IF file.Perm = 0 THEN defaultPerm(file.Type) ELSE file.Perm],
     ModTime |-> file.MTime,
     Size |-> file.size,
     Uid |-> IF file.User.Type = OwnerByID THEN file.User.ID ELSE 0,
     Uname |-> IF file.User.Type = OwnerByName THEN file.User.Name ELSE <<>>,
     Gid |-> IF file.Group.Type = OwnerByID THEN file.Group.ID ELSE 0,
     Gname |-> IF file.Group.Type = OwnerByName THEN file.Group.Name ELSE <<>>,
     Linkname |-> IF file.Type = TypeLNK THEN file.Link[1] ELSE <<>>,
     Devmajor |-> IF file.Type \in {TypeCHR, TypeBLK} THEN file.Major[1] ELSE 0,
     Devminor |-> IF file.Type \in {TypeCHR, TypeBLK} THEN file.Minor[1] ELSE 0]

\* File.Reader, for a resolved file: the bytes the reader yields, whether reading
\* them ends in an error, and whether Open failed
FileReader(file, fileSystem) ==
    LET name == IF file.Path # <<>> THEN file.Path[1] ELSE file.Name
    IN  IF file.Type # TypeREG THEN [err |-> FALSE, content |-> <<>>, readErr |-> FALSE]
        ELSE IF file.Bytes # <<>>
        THEN [err |-> FALSE, content |-> file.Bytes[1], readErr |-> FALSE]
        ELSE IF file.Text # <<>>
        THEN [err |-> FALSE, content |-> file.Text[1], readErr |-> FALSE]
        ELSE IF ~FSHas(fileSystem, name)
        THEN [err |-> TRUE, content |-> <<>>, readErr |-> FALSE]
        ELSE [err |-> FALSE, content |-> FSGet(fileSystem, name).content,
              readErr |-> FSGet(fileSystem, name).readErr]

\* whether the file's content comes from the content root (Open and Close can fail)
FromRoot(file) == file.Type = TypeREG /\ file.Bytes = <<>> /\ file.Text = <<>>

(***************************************************************************)
(* Builder                                                                 *)
(*                                                                         *)
(* A partition is what a partition build has put into its writer w: the    *)
(* compression, the tar entries, and whether the tar layer and then the    *)
(* compression layer were closed.  A fault names the fallible I/O step     *)
(* that fails in a call: its kind and, for a step taken once per entry,    *)
(* the 0-based index of the entry.                                         *)
(***************************************************************************)

\* the value fillDefaults gives a zero ZeroTime: 2020-01-01T00:00:00Z
DefaultZeroTime == 1577836800

\* fillDefaults taking the zero time from the wall clock, to show what C14 owes to
\* the fixed reference time
fillDefaults_WallClock(b) ==
    [b EXCEPT !.ZeroTime = IF @ = 0 THEN ghost.now ELSE @,
              !.Compression = IF @ = CompressAuto THEN CompressGZIP ELSE @,
              !.Hashes = IF @ = <<>> THEN <<standardHashes>> ELSE @]

\* Builder.fillDefaults
fillDefaults(b) ==
    [b EXCEPT !.ZeroTime = IF @ = 0 THEN DefaultZeroTime ELSE @,
              !.Compression = IF @ = CompressAuto THEN CompressGZIP ELSE @,
              !.Hashes = IF @ = <<>> THEN <<standardHashes>> ELSE @]

\* a writer nothing was written to
NoPartition ==
    [begun |-> FALSE, comp |-> CompressAuto, entries |-> <<>>,
     tarClosed |-> FALSE, cwClosed |-> FALSE]

Partition(comp, entries, tarClosed, cwClosed) ==
    [begun |-> TRUE, comp |-> comp, entries |-> entries,
     tarClosed |-> tarClosed, cwClosed |-> cwClosed]

NoFault == [phase |-> "none", kind |-> "none", index |-> 0]

\* CompressAlgorithm.NewWriter: a writer, an error, or the panic of the default case.
\* Of the four writers only xz writes (its stream header) when it is made.
NewWriter(algo, fault) ==
    IF algo \in {CompressNone, CompressGZIP, CompressZSTD}
    THEN [panic |-> NoPanic, err |-> NoErr]
    ELSE IF algo = CompressXZ
    THEN [panic |-> NoPanic,
          err |-> IF fault.kind = "NewWriter" THEN Err("xz.NewWriter", "write failed") ELSE NoErr]
    ELSE [panic |-> "not implemented", err |-> NoErr]

DataStop(panic, err, files, tw) == [panic |-> panic, err |-> err, files |-> files, tw |-> tw]

\* the fault is in the step of this kind for the entry at this 0-based index
FaultAt(fault, kind, index) == fault.kind = kind /\ fault.index = index

\* the header of an entry: AsTarHeader, with the builder's ZeroTime for a zero time
DataHeader(file, b) ==
    [AsTarHeader(file) EXCEPT !.ModTime = IF file.MTime = 0 THEN b.ZeroTime ELSE file.MTime]

\* the hashWriter of an entry: a fresh hasher for each algorithm of the builder
NewHashWriter(tw, b) == [file |-> tw, hashers |-> [a \in SeqToSet(b.Hashes[1]) |-> HashNew(a)]]

\* the entry with the digests of the hashers
Hashed(file, hashers) ==
    [file EXCEPT !.hashes = [a \in DOMAIN hashers |-> hasherSum(hashers[a])], !.isHashed = TRUE]

RECURSIVE dataLoop(_, _, _, _, _, _)
\* the entry at i after io.Copy returned cp: the reader is closed, the digests stored
dataCopied(files, i, tw, rd, cp, b, fileSystem, fault) ==
    IF cp.err # "" THEN DataStop(NoPanic, ErrAt(i - 1, Err("Copy", cp.err)), files, cp.hw.file)
    ELSE IF FaultAt(fault, "Copy", i - 1) /\ (FromRoot(files[i]) \/ rd.content # <<>>)
    THEN DataStop(NoPanic, ErrAt(i - 1, Err("Copy", "")), files, tw)
    ELSE IF FaultAt(fault, "Close", i - 1) /\ FromRoot(files[i])
    THEN DataStop(NoPanic, ErrAt(i - 1, Err("Close", "")), files, cp.hw.file)
    ELSE dataLoop([files EXCEPT ![i] = Hashed(@, cp.hw.hashers)], i + 1, cp.hw.file,
                  b, fileSystem, fault)

\* the regular file at i after File.Reader returned rd: the hashers are made and
\* the content is copied
dataBody(files, i, tw, rd, b, fileSystem, fault) ==
    IF rd.err \/ (FaultAt(fault, "Open", i - 1) /\ FromRoot(files[i]))
    THEN DataStop(NoPanic, ErrAt(i - 1, Err("Open", "")), files, tw)
    ELSE IF \E a \in SeqToSet(b.Hashes[1]) : ~HashImplemented(a)
    THEN DataStop("not implemented", NoErr, files, tw)
    ELSE dataCopied(files, i, tw, rd, ioCopy(NewHashWriter(tw, b), rd.content, rd.readErr),
                    b, fileSystem, fault)

\* the entry at i after tar's WriteHeader returned wh
dataHeader(files, i, tw, wh, b, fileSystem, fault) ==
    IF wh.err \/ FaultAt(fault, "WriteHeader", i - 1)
    THEN DataStop(NoPanic, ErrAt(i - 1, Err("tar.WriteHeader", "")), files, tw)
    ELSE IF files[i].Type # TypeREG THEN dataLoop(files, i + 1, wh.tw, b, fileSystem, fault)
    ELSE dataBody(files, i, wh.tw, FileReader(files[i], fileSystem), b, fileSystem, fault)

\* the entry at i after its hash state was cleared; AsTarHeader panics for an
\* entry that is not resolved
dataEntry(files, i, tw, b, fileSystem, fault) ==
    IF ~files[i].isResolved THEN DataStop("must call Resolve first", NoErr, files, tw)
    ELSE dataHeader(files, i, tw, tarWriteHeader(tw, DataHeader(files[i], b)),
                    b, fileSystem, fault)

\* the loop of BuildDataTarball from the entry at 1-based position i on
dataLoop(files, i, tw, b, fileSystem, fault) ==
    IF i > Len(files) THEN DataStop(NoPanic, NoErr, files, tw)
    ELSE dataEntry([files EXCEPT ![i].isHashed = FALSE, ![i].hashes = NoHashes], i, tw,
                   b, fileSystem, fault)

BuildResult(panic, err, m, w) == [panic |-> panic, err |-> err, manifest |-> m, w |-> w]

\* the end of a partition build after its loop ended with loop: the tar writer
\* is closed, then the compression writer
closePartition(b, m, loop, fault) ==
    IF loop.panic # NoPanic
    THEN BuildResult(loop.panic, NoErr, m, Partition(b.Compression, loop.tw, FALSE, FALSE))
    ELSE IF ~loop.err.nil
    THEN BuildResult(NoPanic, loop.err, m, Partition(b.Compression, loop.tw, FALSE, FALSE))
    ELSE IF tarPending(loop.tw) \/ fault.kind = "twClose"
    THEN BuildResult(NoPanic, Err("tar.Close", ""), m,
                     Partition(b.Compression, loop.tw, FALSE, FALSE))
    ELSE IF fault.kind = "cwClose" /\ b.Compression # CompressNone
    THEN BuildResult(NoPanic, Err("compress.Close", ""), m,
                     Partition(b.Compression, loop.tw, TRUE, FALSE))
    ELSE BuildResult(NoPanic, NoErr, m, Partition(b.Compression, loop.tw, TRUE, TRUE))

\* BuildDataTarball after its loop ended: the manifest is marked hashed on success
dataClosed(m, r) ==
    IF r.panic = NoPanic /\ r.err.nil THEN [r EXCEPT !.manifest = [m EXCEPT !.isHashed = TRUE]]
    ELSE r

\* BuildDataTarball after its loop ended with loop
dataLooped(b, m, loop, fault) ==
    dataClosed([m EXCEPT !.Files = loop.files],
               closePartition(b, [m EXCEPT !.Files = loop.files], loop, fault))

\* BuildDataTarball after NewWriter returned nw
dataWriter(b, m, nw, fileSystem, fault) ==
    IF nw.panic # NoPanic THEN BuildResult(nw.panic, NoErr, m, NoPartition)
    ELSE IF ~nw.err.nil THEN BuildResult(NoPanic, nw.err, m, NoPartition)
    ELSE dataLooped(b, m, dataLoop(m.Files, 1, NewTarWriter, b, fileSystem, fault), fault)

\* BuildDataTarball with the defaults filled in
dataFilled(b, m, fileSystem, fault) ==
    dataWriter(b, m, NewWriter(b.Compression, fault), fileSystem, fault)

\* Builder.BuildDataTarball(w, manifest): the panic or error it ends with, the
\* manifest afterwards and what it has put into w
BuildDataTarball(builder0, m, fileSystem, fault) ==
    IF ~m.isResolved THEN BuildResult("must call manifest.Resolve first", NoErr, m, NoPartition)
    ELSE dataFilled(fillDefaults(builder0), m, fileSystem, fault)
RECURSIVE BitOr(_, _)
\* a | b on non-negative integers
BitOr(a, b) ==
    IF a = 0 THEN b
    ELSE IF b = 0 THEN a
    ELSE (IF a % 2 = 1 \/ b % 2 = 1 THEN 1 ELSE 0) + 2 * BitOr(a \div 2, b \div 2)

\* a Go map lookup in file.hashes: the nil slice for a missing key
HashesGet(hashes, algo) == IF algo \in DOMAIN hashes THEN hashes[algo] ELSE <<>>

RECURSIVE ChecksumLines_EveryEntry(_, _)
\* a checksum file with a line for every entry, to show what C2 owes to the
\* filter of BuildControlTarball
ChecksumLines_EveryEntry(files, algo) ==
    IF files = <<>> THEN <<>>
    ELSE HexEncode(HashesGet(Head(files).hashes, algo)) \o <<" "," ">>
         \o Head(files).Name \o <<"\n">> \o ChecksumLines_EveryEntry(Tail(files), algo)

RECURSIVE ChecksumLines(_, _)
\* the checksum file of one algorithm: a line for every entry marked hashed
ChecksumLines(files, algo) ==
    IF files = <<>> THEN <<>>
    ELSE (IF Head(files).isHashed
          THEN HexEncode(HashesGet(Head(files).hashes, algo)) \o <<" "," ">>
               \o Head(files).Name \o <<"\n">>
          ELSE <<>>)
         \o ChecksumLines(Tail(files), algo)

\* the calls of writeControlFile that BuildControlTarball makes, in order; data is
\* an optional, <<>> for the nil slice.  The checksum buffer is grown before use,
\* so its bytes are never nil.
ControlFiles(b, m) ==
    << [name |-> <<"c","o","n","t","r","o","l">>, isExec |-> FALSE, data |-> <<ControlFile(m)>>] >>
    \o [k \in 1..Len(b.Hashes[1]) |->
          [name |-> HashFileName(b.Hashes[1][k]), isExec |-> FALSE,
           data |-> <<ChecksumLines(m.Files, b.Hashes[1][k])>>]]
    \o << [name |-> <<"c","o","n","f","f","i","l","e","s">>, isExec |-> FALSE, data |-> ConfFiles(m)],
          [name |-> <<"p","r","e","i","n","s","t">>, isExec |-> TRUE, data |-> PreInstallScript(m)],
          [name |-> <<"p","o","s","t","i","n","s","t">>, isExec |-> TRUE, data |-> PostInstallScript(m)],
          [name |-> <<"p","r","e","r","m">>, isExec |-> TRUE, data |-> PreRemoveScript(m)],
          [name |-> <<"p","o","s","t","r","m">>, isExec |-> TRUE, data |-> PostRemoveScript(m)] >>

\* the header writeControlFile builds: mode unixModeREG | 0644, with 0111 when executable
ControlHeader(b, name, isExec, data) ==
    [Typeflag |-> "TypeReg", Name |-> name,
     Mode |-> [fmt |-> "unixModeREG", perm |-> IF isExec THEN BitOr(420, 73) ELSE 420],
     ModTime |-> b.ZeroTime, Size |-> Len(data),
     Uid |-> 0, Uname |-> <<>>, Gid |-> 0, Gname |-> <<>>, Linkname |-> <<>>,
     Devmajor |-> 0, Devminor |-> 0]

\* writeControlFile after tar's Write returned wr
controlWritten(tw, wr, fault) ==
    IF wr.err \/ FaultAt(fault, "Write", Len(tw) - 1) THEN [err |-> Err("Write", ""), tw |-> tw]
    ELSE [err |-> NoErr, tw |-> wr.tw]

\* writeControlFile after tar's WriteHeader returned wh
controlHeaded(tw, wh, data, fault) ==
    IF wh.err \/ FaultAt(fault, "WriteHeader", Len(tw))
    THEN [err |-> Err("tar.WriteHeader", ""), tw |-> tw]
    ELSE controlWritten(wh.tw, tarWrite(wh.tw, data), fault)

\* Builder.writeControlFile: nothing for nil data, else a header and the data.
\* The fault's index is the number of entries written before.
writeControlFile(b, tw, cf, fault) ==
    IF cf.data = <<>> THEN [err |-> NoErr, tw |-> tw]
    ELSE controlHeaded(tw, tarWriteHeader(tw, ControlHeader(b, cf.name, cf.isExec, cf.data[1])),
                       cf.data[1], fault)

RECURSIVE controlLoop(_, _, _, _)
\* the calls after a writeControlFile call returned r
controlNext(b, cfs, r, fault) ==
    IF ~r.err.nil THEN DataStop(NoPanic, r.err, <<>>, r.tw)
    ELSE controlLoop(b, cfs, r.tw, fault)

\* the writeControlFile calls in order, stopping at the first that fails
controlLoop(b, cfs, tw, fault) ==
    IF cfs = <<>> THEN DataStop(NoPanic, NoErr, <<>>, tw)
    ELSE controlNext(b, Tail(cfs), writeControlFile(b, tw, Head(cfs), fault), fault)

\* BuildControlTarball after NewWriter returned nw
controlWriter(b, m, nw, fault) ==
    IF nw.panic # NoPanic THEN BuildResult(nw.panic, NoErr, m, NoPartition)
    ELSE IF ~nw.err.nil THEN BuildResult(NoPanic, nw.err, m, NoPartition)
    ELSE closePartition(b, m, controlLoop(b, ControlFiles(b, m), NewTarWriter, fault), fault)

\* BuildControlTarball with the defaults filled in
controlFilled(b, m, fault) == controlWriter(b, m, NewWriter(b.Compression, fault), fault)

\* BuildControlTarball without its second guard, to show what C1 owes to it
BuildControlTarball_NoOrderCheck(builder0, m, fault) ==
    IF ~m.isResolved THEN BuildResult("must call manifest.Resolve first", NoErr, m, NoPartition)
    ELSE controlFilled(fillDefaults(builder0), m, fault)

\* Builder.BuildControlTarball(w, manifest)
BuildControlTarball(builder0, m, fault) ==
    IF ~m.isResolved THEN BuildResult("must call manifest.Resolve first", NoErr, m, NoPartition)
    ELSE IF ~m.isHashed THEN BuildResult("must call BuildDataTarball first", NoErr, m, NoPartition)
    ELSE controlFilled(fillDefaults(builder0), m, fault)

(***************************************************************************)
(* The length of a partition file.  The tar and compression encoders are   *)
(* library code: the tar length counts 512-byte blocks, and the compressed *)
(* length is a stand-in, a function of the partition's content under which *)
(* odd and even lengths both occur.                                        *)
(***************************************************************************)

RECURSIVE BodyBytes(_)
BodyBytes(entries) ==
    IF entries = <<>> THEN 0 ELSE Len(Head(entries).body) + BodyBytes(Tail(entries))

RECURSIVE TarBlocks(_)
TarBlocks(entries) ==
    IF entries = <<>> THEN 2
    ELSE 1 + (pad(Len(Head(entries).body), 9) \div 512) + TarBlocks(Tail(entries))

\* the bytes in the partition's file
PartitionLen(p) ==
    LET blocks == IF p.tarClosed THEN TarBlocks(p.entries) ELSE TarBlocks(p.entries) - 2
        body == BodyBytes(p.entries)
    IN  IF ~p.begun THEN 0
        ELSE CASE p.comp = CompressNone -> 512 * blocks
               [] p.comp = CompressGZIP -> 18 + blocks + body
               [] p.comp = CompressXZ -> 32 + 4 * ((blocks + body + 3) \div 4)
               [] OTHER -> 13 + blocks + body

(***************************************************************************)
(* The ar container encoder.  What reaches the sink is a sequence of       *)
(* writes: literal bytes, or the bytes io.Copy takes from a stream, from   *)
(* the stream's position to its end.                                       *)
(***************************************************************************)

Bytes(chars) == [kind |-> "bytes", bytes |-> chars]

Copied(r) == [kind |-> "copy", content |-> r.content, from |-> r.pos, n |-> r.len - r.pos]

\* the bytes a write puts into the sink
ItemLen(item) == IF item.kind = "bytes" THEN Len(item.bytes) ELSE item.n

RECURSIVE ItemsLen(_)
ItemsLen(items) == IF items = <<>> THEN 0 ELSE ItemLen(Head(items)) + ItemsLen(Tail(items))

\* a stream over a byte string or a file: its content, length and read position
Stream(content, len, pos) == [content |-> content, len |-> len, pos |-> pos]

RECURSIVE Spaces(_)
Spaces(n) == IF n <= 0 THEN <<>> ELSE <<" ">> \o Spaces(n - 1)

\* fmt.Sprintf("%-10d", size): left-justified in at least 10 columns
SizeString(size) == FormatInt(size) \o Spaces(10 - Len(FormatInt(size)))

\* the byte 0x60, which a string of the module cannot hold
Backtick == "GRAVE"

\* the 60-byte header of writeArEntry: the name in 16 columns, the fixed
\* timestamp, uid, gid and mode fields, the size in 10 columns, the end marker
arHeader(name, sizeString) ==
    name \o Spaces(16 - Len(name)) \o <<"1","5","7","7","8","3","6","8","0","0"," "," ","0"," "," "," "," "," ","0"," "," "," "," "," ","1","0","0","6","4","4"," "," ">>
    \o sizeString \o <<Backtick, "\n">>

ArResult(panic, err, items) == [panic |-> panic, err |-> err, items |-> items]

\* writeArEntry padding the even sizes instead of the odd ones, to show what C5
\* owes to the parity test
arEntryWrites_PadEven(hdr, size, r, entry, fault) ==
    IF size % 2 = 0 THEN ArResult(NoPanic, NoErr, <<hdr, Copied(r), Bytes(<<"\n">>)>>)
    ELSE ArResult(NoPanic, NoErr, <<hdr, Copied(r)>>)

\* writeArEntry after its checks, with the header hdr: the header, the body and,
\* for an odd size, one pad byte
arEntryWrites(hdr, size, r, entry, fault) ==
    IF FaultAt(fault, "arHeader", entry) THEN ArResult(NoPanic, Err("Write", ""), <<>>)
    ELSE IF FaultAt(fault, "arCopy", entry) THEN ArResult(NoPanic, Err("Copy", ""), <<hdr>>)
    ELSE IF size % 2 # 0
    THEN IF FaultAt(fault, "arPad", entry)
         THEN ArResult(NoPanic, Err("Write", ""), <<hdr, Copied(r)>>)
         ELSE ArResult(NoPanic, NoErr, <<hdr, Copied(r), Bytes(<<"\n">>)>>)
    ELSE ArResult(NoPanic, NoErr, <<hdr, Copied(r)>>)

\* writeArEntry after the size was formatted as sizeString
arEntrySized(name, size, sizeString, r, entry, fault) ==
    IF Len(sizeString) # 10
    THEN ArResult("formatted size should be exactly 10 bytes", NoErr, <<>>)
    ELSE arEntryWrites(Bytes(arHeader(name, sizeString)), size, r, entry, fault)

\* writeArEntry(w, name, size, r): the panic or error it ends with and its writes.
\* entry is the 0-based position of the entry in the container, for the fault.
writeArEntry(name, size, r, entry, fault) ==
    IF Len(name) > 16 THEN ArResult("name exceeds 16 bytes", NoErr, <<>>)
    ELSE IF size < 0 THEN ArResult("size is negative", NoErr, <<>>)
    ELSE arEntrySized(name, size, SizeString(size), r, entry, fault)

arMagic == <<"!","<","a","r","c","h",">","\n">>

debianBinary == <<"2",".","0","\n">>

\* the writes so far, and the entry e after them
arThen(items, e) == ArResult(e.panic, e.err, items \o e.items)

RECURSIVE arNext(_, _)
\* the rest of writeArFile after an entry: nothing when the entry failed
arNext(done, rest) ==
    IF done.panic # NoPanic \/ ~done.err.nil \/ rest = <<>> THEN done
    ELSE arNext(arThen(done.items, Head(rest)), Tail(rest))

\* writeArFile without the two rewinds, to show what C4 owes to them
writeArFile_NoRewind(b, controlFile, dataFile, fault) ==
    arNext(ArResult(NoPanic, NoErr, <<Bytes(arMagic)>>),
           << writeArEntry(<<"d","e","b","i","a","n","-","b","i","n","a","r","y">>, Len(debianBinary),
                           Stream(debianBinary, Len(debianBinary), 0), 0, fault),
              writeArEntry(<<"c","o","n","t","r","o","l",".","t","a","r">> \o CompressSuffix(b.Compression), controlFile.len,
                           controlFile, 1, fault),
              writeArEntry(<<"d","a","t","a",".","t","a","r">> \o CompressSuffix(b.Compression), dataFile.len,
                           dataFile, 2, fault) >>)

\* Builder.writeArFile(w, controlFile, dataFile): each file is measured by a seek
\* to its end and rewound, then the magic and the three entries are written.
\* A file is a stream whose position is where the last write left it.
writeArFile(b, controlFile, dataFile, fault) ==
    IF fault.kind = "Seek" THEN ArResult(NoPanic, Err("Seek", ""), <<>>)
    ELSE IF fault.kind = "arMagic" THEN ArResult(NoPanic, Err("Write", ""), <<>>)
    ELSE arNext(ArResult(NoPanic, NoErr, <<Bytes(arMagic)>>),
                << writeArEntry(<<"d","e","b","i","a","n","-","b","i","n","a","r","y">>, Len(debianBinary),
                                Stream(debianBinary, Len(debianBinary), 0), 0, fault),
                   writeArEntry(<<"c","o","n","t","r","o","l",".","t","a","r">> \o CompressSuffix(b.Compression), controlFile.len,
                                [controlFile EXCEPT !.pos = 0], 1, fault),
                   writeArEntry(<<"d","a","t","a",".","t","a","r">> \o CompressSuffix(b.Compression), dataFile.len,
                                [dataFile EXCEPT !.pos = 0], 2, fault) >>)

\* the length of a partition's file and the partition
Measured(len, p) == Stream(p, len, len)

\* a temporary file after a partition build wrote it: the position is at the end
TempFile(p) == Measured(PartitionLen(p), p)

\* dataBuilt: the call got past its BuildDataTarball call; at: the statement of
\* Build at which control left its body
BuildStop(panic, err, m, items, dataBuilt, at) ==
    [panic |-> panic, err |-> err, manifest |-> m, sink |-> items, dataBuilt |-> dataBuilt,
     at |-> at]

\* the deferred functions run in the order they were registered, to show what C23
\* owes to their running last-registered first
buildDeferred_InOrder(registered, need) ==
    (IF registered >= 1 /\ need.removeTempDir THEN <<"RemoveAll">> ELSE <<>>)
    \o (IF registered >= 2 /\ need.closeControlFile THEN <<"controlFile.Close">> ELSE <<>>)
    \o (IF registered >= 3 /\ need.closeDataFile THEN <<"dataFile.Close">> ELSE <<>>)

\* the deferred functions of Build when control leaves it, by return or by panic:
\* of the three, those registered so far run, the last registered first, and each
\* acts if its need flag is still set
buildDeferred(registered, need) ==
    (IF registered >= 3 /\ need.closeDataFile THEN <<"dataFile.Close">> ELSE <<>>)
    \o (IF registered >= 2 /\ need.closeControlFile THEN <<"controlFile.Close">> ELSE <<>>)
    \o (IF registered >= 1 /\ need.removeTempDir THEN <<"RemoveAll">> ELSE <<>>)

Need(removeTempDir, closeControlFile, closeDataFile) ==
    [removeTempDir |-> removeTempDir, closeControlFile |-> closeControlFile,
     closeDataFile |-> closeDataFile]

\* the calls Build makes on its temporary directory and its two temporary files, in
\* order, when control leaves its body at the statement at: those of the body, then
\* those of the deferred functions
buildTempCalls(at) ==
    CASE at \in {"Resolve", "MkdirTemp"} -> <<>>
      [] at = "OpenControl" ->
            <<"MkdirTemp">> \o buildDeferred(1, Need(TRUE, TRUE, TRUE))
      [] at = "OpenData" ->
            <<"MkdirTemp", "controlFile.Open">> \o buildDeferred(2, Need(TRUE, TRUE, TRUE))
      [] at \in {"BuildDataTarball", "BuildControlTarball", "writeArFile"} ->
            <<"MkdirTemp", "controlFile.Open", "dataFile.Open">>
            \o buildDeferred(3, Need(TRUE, TRUE, TRUE))
      [] OTHER ->
            <<"MkdirTemp", "controlFile.Open", "dataFile.Open",
              "dataFile.Close", "controlFile.Close", "RemoveAll">>
            \o buildDeferred(3, Need(FALSE, FALSE, FALSE))

\* Build after writeArFile returned a: the temporary directory is removed
buildWritten(m, a, fault) ==
    IF a.panic # NoPanic \/ ~a.err.nil
    THEN BuildStop(a.panic, a.err, m, a.items, TRUE, "writeArFile")
    ELSE IF fault.phase = "RemoveAll"
    THEN BuildStop(NoPanic, Err("failed to clean up temporary directory", ""), m, a.items, TRUE,
                   "RemoveAll")
    ELSE BuildStop(NoPanic, NoErr, m, a.items, TRUE, "return")

\* Build going on to writeArFile whatever BuildControlTarball returned, to show what
\* C22 owes to the early returns of Build
buildControlled_WriteAnyway(b, c, dataPart, fault) ==
    IF c.panic # NoPanic
    THEN BuildStop(c.panic, NoErr, c.manifest, <<>>, TRUE, "BuildControlTarball")
    ELSE buildWritten(c.manifest,
                      writeArFile(b, TempFile(c.w), TempFile(dataPart),
                                  IF fault.phase = "ar" THEN fault ELSE NoFault),
                      fault)

\* Build after BuildControlTarball returned c, with the data partition dataPart
buildControlled(b, c, dataPart, fault) ==
    IF c.panic # NoPanic
    THEN BuildStop(c.panic, NoErr, c.manifest, <<>>, TRUE, "BuildControlTarball")
    ELSE IF ~c.err.nil
    THEN BuildStop(NoPanic, Err("failed to build control tarball in temporary file", c.err.field),
                   c.manifest, <<>>, TRUE, "BuildControlTarball")
    ELSE buildWritten(c.manifest,
                      writeArFile(b, TempFile(c.w), TempFile(dataPart),
                                  IF fault.phase = "ar" THEN fault ELSE NoFault),
                      fault)

\* Build after BuildDataTarball returned d
buildData(b, d, fault) ==
    IF d.panic # NoPanic
    THEN BuildStop(d.panic, NoErr, d.manifest, <<>>, FALSE, "BuildDataTarball")
    ELSE IF ~d.err.nil
    THEN BuildStop(NoPanic, Err("failed to build data tarball in temporary file", d.err.field),
                   d.manifest, <<>>, FALSE, "BuildDataTarball")
    ELSE buildControlled(b,
                         BuildControlTarball(b, d.manifest,
                                             IF fault.phase = "control" THEN fault ELSE NoFault),
                         d.w, fault)

\* Build after manifest.Resolve returned rs: the temporary directory and the two
\* temporary files are made, and the partitions are built into them.  The index of
\* an OpenFile fault is 0 for the control file and 1 for the data file.
buildResolved(b, rs, fileSystem, fault) ==
    IF ~rs.err.nil THEN BuildStop(NoPanic, rs.err, rs.manifest, <<>>, FALSE, "Resolve")
    ELSE IF fault.phase = "MkdirTemp"
    THEN BuildStop(NoPanic, Err("failed to create temporary directory", ""), rs.manifest, <<>>,
                   FALSE, "MkdirTemp")
    ELSE IF fault.phase = "OpenFile"
    THEN BuildStop(NoPanic, Err("failed to create temporary file", ""), rs.manifest, <<>>,
                   FALSE, IF fault.index = 0 THEN "OpenControl" ELSE "OpenData")
    ELSE buildData(b,
                   BuildDataTarball(b, rs.manifest, fileSystem,
                                    IF fault.phase = "data" THEN fault ELSE NoFault),
                   fault)

\* Build with the defaults filled in
buildFilled(b, m, fileSystem, fault) ==
    buildResolved(b, ManifestResolve(m, fileSystem), fileSystem, fault)

\* Builder.Build(w, manifest): the panic or error it ends with, the manifest
\* afterwards and the writes to the sink w
Build(builder0, m, fileSystem, fault) == buildFilled(fillDefaults(builder0), m, fileSystem, fault)
(***************************************************************************)
(* The state machine.  A caller holds a manifest and a builder and calls   *)
(* Resolve, BuildDataTarball, BuildControlTarball and Build in any order,  *)
(* each partition build with a fresh writer; a panic ends the program.     *)
(*                                                                         *)
(*   manifest  the Manifest the caller holds                               *)
(*   builder   the Builder the caller holds                                *)
(*   out       the writer of the last call: the partition a partition      *)
(*             build wrote, or the writes Build made to its sink           *)
(*   last      the last call: its name, its panic or error, and whether    *)
(*             an I/O fault was injected into it                           *)
(*   ghost     history: whether a BuildDataTarball call has succeeded      *)
(*   prim, ar, hashWriter   a primitive value, a writeArEntry call and   *)
(*             a hashWriter exercised on their own                         *)
(***************************************************************************)

\* the longest file list of a manifest the pipeline is run on
MaxFiles == 2

\* the longest file list of a manifest Resolve alone is run on
MaxResolveFiles == 3

NewManifest(package, arch, implicitDirs, files) ==
    [Package |-> package, Version |-> <<"1",".","0">>, Arch |-> arch, Section |-> <<>>,
     Priority |-> <<>>, Essential |-> <<>>, Depends |-> <<>>, PreDepends |-> <<>>,
     Recommends |-> <<>>, Suggests |-> <<>>, Enhances |-> <<>>, Breaks |-> <<>>,
     Conflicts |-> <<>>, Maintainer |-> <<"A"," ","<","a","@","e","x","a","m","p","l","e",".","c","o","m",">">>, HomePage |-> <<>>,
     BuiltUsing |-> <<>>, ShortDescription |-> <<"x">>, LongDescription |-> <<>>,
     ImplicitDirs |-> implicitDirs, Files |-> files,
     PreInstall |-> <<>>, PostInstall |-> << <<"t","r","u","e">> >>, PreRemove |-> <<>>, PostRemove |-> <<>>,
     isResolved |-> FALSE, installedSize |-> 0, isHashed |-> FALSE]

\* the entries the pipeline's manifests are made of: a regular file of each content
\* source, a directory and an entry below it, a symlink, and two files of the content
\* root that changed after Resolve (one grew, one shrank)
PipelineFiles ==
    { [NewFile(<<"x">>, TypeREG) EXCEPT !.Bytes = << <<1, 2, 3>> >>],
      [NewFile(<<"t">>, TypeAUTO) EXCEPT !.Text = << <<2, 1>> >>, !.IsConf = TRUE],
      [NewFile(<<"p">>, TypeREG) EXCEPT !.Path = << <<"a">> >>],
      NewFile(<<"d">>, TypeDIR),
      NewFile(<<"d","/","b">>, TypeAUTO),
      [NewFile(<<"l">>, TypeLNK) EXCEPT !.Link = << <<"x">> >>],
      NewFile(<<"g","r","o","w">>, TypeREG),
      NewFile(<<"b","i","g">>, TypeREG) }

\* the entries of the manifests Resolve alone is run on
ResolveFiles ==
    { NewFile(<<"t","e","n">>, TypeREG),
      NewFile(<<"b","l","k">>, TypeAUTO),
      NewFile(<<"b","i","g">>, TypeREG),
      NewFile(<<"e">>, TypeREG),
      NewFile(<<"d","/">>, TypeAUTO),
      NewFile(<<"d">>, TypeDIR),
      NewFile(<<"d","/","b">>, TypeAUTO),
      [NewFile(<<"d">>, TypeREG) EXCEPT !.Bytes = << <<1>> >>],
      [NewFile(<<"u","s","r","/","f">>, TypeREG) EXCEPT !.Text = << <<1, 2>> >>],
      [NewFile(<<"l">>, TypeLNK) EXCEPT !.Link = << <<"x">> >>],
      [NewFile(<<"l","2">>, TypeLNK) EXCEPT !.Link = << <<"a","/",".",".","/","b">> >>],
      [NewFile(<<"d","e","v">>, TypeCHR) EXCEPT !.Major = <<1>>, !.Minor = <<3>>],
      [NewFile(<<"d","e","v","2">>, TypeBLK) EXCEPT !.Major = <<8>>],
      NewFile(<<"n","o","f","i","l","e">>, TypeREG) }

\* the sequences over S of length at most n
SeqsUpTo(S, n) == UNION {[1..k -> S] : k \in 0..n}

NewBuilder(compression, hashes) ==
    [Compression |-> compression, Hashes |-> hashes, ZeroTime |-> 0]

\* the builders: every compression algorithm, and Hashes nil, empty and given
Builders ==
    { NewBuilder(CompressAuto, <<>>),
      NewBuilder(CompressNone, << <<HashSHA256, HashMD5>> >>),
      NewBuilder(CompressGZIP, << <<>> >>),
      NewBuilder(CompressBZIP2, <<>>),
      NewBuilder(CompressXZ, << <<HashMD5>> >>),
      NewBuilder(CompressZSTD, <<>>) }

Fault(phase, kind, index) == [phase |-> phase, kind |-> kind, index |-> index]

FaultIndexes == 0..(MaxFiles - 1)

\* the I/O faults of one BuildDataTarball call
DataFaults ==
    {Fault("data", k, 0) : k \in {"none", "NewWriter", "twClose", "cwClose"}}
    \cup {Fault("data", k, i) : k \in {"WriteHeader", "Open", "Copy", "Close"}, i \in FaultIndexes}

\* the I/O faults of one BuildControlTarball call
ControlFaults ==
    {Fault("control", k, 0) : k \in {"none", "NewWriter", "twClose", "cwClose"}}
    \cup {Fault("control", k, i) : k \in {"WriteHeader", "Write"}, i \in FaultIndexes}

\* the I/O faults of writeArFile
ArFaults ==
    {Fault("ar", k, 0) : k \in {"Seek", "arMagic"}}
    \cup {Fault("ar", k, i) : k \in {"arHeader", "arCopy", "arPad"}, i \in 0..2}

\* the I/O faults of one Build call
BuildFaults ==
    {Fault(p, "none", 0) : p \in {"none", "MkdirTemp", "OpenFile", "RemoveAll"}}
    \cup (DataFaults \ {Fault("data", "none", 0)})
    \cup (ControlFaults \ {Fault("control", "none", 0)})
    \cup ArFaults

Faulted(fault) == fault.kind # "none" \/ fault.phase \in {"MkdirTemp", "OpenFile", "RemoveAll"}

Called(op, panic, err, fault) ==
    [op |-> op, panic |-> panic, err |-> err, faulted |-> Faulted(fault)]

NotCalled == Called("none", NoPanic, NoErr, NoFault)

NoOut == [w |-> NoPartition, sink |-> <<>>]

IdleManifest == NewManifest(<<>>, <<>>, <<>>, <<>>)

IdleBuilder == NewBuilder(CompressAuto, <<>>)

\* no writeArEntry call of its own is under way
IdleAr ==
    [name |-> <<"idle">>, size |-> 0, streamLen |-> 0, called |-> FALSE,
     faulted |-> FALSE, result |-> ArResult(NoPanic, NoErr, <<>>)]

\* no hashWriter of its own is under way
IdleHashWriter == [file |-> NewTarWriter, hashers |-> <<>>, n |-> 0, err |-> FALSE, writes |-> 0]

NoGhost == [dataBuilt |-> FALSE]

\* a primitive value on its way through String and Parse
PrimStart(kind, v) ==
    [kind |-> kind, v |-> v, stage |-> "value", text |-> <<>>,
     perr |-> FALSE, pv |-> v, text2 |-> <<>>]

PrimIdle == PrimStart("none", 0)

\* the program has not panicked
Alive == last.panic = NoPanic

\* a call returned r: the manifest is as the call left it
Returned(op, r, fault, w, sink, dataBuilt) ==
    /\ manifest' = r.manifest
    /\ last' = Called(op, r.panic, r.err, fault)
    /\ out' = [w |-> w, sink |-> sink]
    /\ ghost' = [ghost EXCEPT !.dataBuilt = @ \/ dataBuilt]
    /\ UNCHANGED <<builder, prim, ar, hashWriter>>

ResolveReturned(r) == Returned("Resolve", [r EXCEPT !.panic = NoPanic], NoFault, NoPartition, <<>>, FALSE)

\* manifest.Resolve(builder.Root)
ResolveCall ==
    /\ Alive
    /\ ResolveReturned([panic |-> NoPanic] @@ ManifestResolve(manifest, RootFS))

DataReturned(r, fault) ==
    Returned("BuildDataTarball", r, fault, r.w, <<>>, r.panic = NoPanic /\ r.err.nil)

\* builder.BuildDataTarball(w, manifest) with a fresh w
BuildDataTarballCall ==
    /\ Alive
    /\ \E fault \in DataFaults :
          DataReturned(BuildDataTarball(builder, manifest, RootFS, fault), fault)

ControlReturned(r, fault) == Returned("BuildControlTarball", r, fault, r.w, <<>>, FALSE)

\* builder.BuildControlTarball(w, manifest) with a fresh w
BuildControlTarballCall ==
    /\ Alive
    /\ \E fault \in ControlFaults :
          ControlReturned(BuildControlTarball(builder, manifest, fault), fault)

BuildReturned(r, fault) == Returned("Build", r, fault, NoPartition, r.sink, r.dataBuilt)

\* builder.Build(w, manifest) with a fresh w
BuildCall ==
    /\ Alive
    /\ \E fault \in BuildFaults :
          BuildReturned(Build(builder, manifest, RootFS, fault), fault)

Init ==
    /\ \E files \in SeqsUpTo(PipelineFiles, MaxFiles) :
          manifest = NewManifest(<<"f","o","o">>, <<"a","m","d","6","4">>, <<>>, files)
    /\ builder \in Builders
    /\ out = NoOut
    /\ last = NotCalled
    /\ ghost = NoGhost
    /\ prim = PrimIdle
    /\ ar = IdleAr
    /\ hashWriter = IdleHashWriter

Next == ResolveCall \/ BuildDataTarballCall \/ BuildControlTarballCall \/ BuildCall

Spec == Init /\ [][Next]_vars

\* Resolve alone, on a wider range of manifests
InitResolve ==
    /\ \E files \in SeqsUpTo(ResolveFiles, MaxResolveFiles) :
       \E implicitDirs \in { <<>>, << <<"u","s","r","/">> >> } :
       \E arch \in { <<"a","m","d","6","4">>, <<"a","m","d","_","6","4">> } :
          manifest = NewManifest(<<"f","o","o">>, arch, implicitDirs, files)
    /\ builder = IdleBuilder
    /\ out = NoOut
    /\ last = NotCalled
    /\ ghost = NoGhost
    /\ prim = PrimIdle
    /\ ar = IdleAr
    /\ hashWriter = IdleHashWriter

NextResolve == ResolveCall

SpecResolve == InitResolve /\ [][NextResolve]_vars

(***************************************************************************)
(* Main, from the construction of the builder on.  The output file is      *)
(* [exists, sink]: whether there is a file at the output path, and the     *)
(* writes that make up its content.  The result carries the exit code (2   *)
(* for a panic) and the stage at which Main stopped.                       *)
(***************************************************************************)

MainResult(exit, stage, panic, err, m, file) ==
    [exit |-> exit, stage |-> stage, panic |-> panic, err |-> err, manifest |-> m, file |-> file]

\* Main after file.Sync: Close, then the directory is opened, synced and closed
mainSynced(m, file, fault) ==
    IF fault.phase = "Close"
    THEN MainResult(1, "Close", NoPanic, Err("failed to close output file", ""), m, file)
    ELSE IF fault.phase = "OpenDir"
    THEN MainResult(1, "OpenDir", NoPanic, Err("failed to open directory", ""), m, file)
    ELSE IF fault.phase = "SyncDir"
    THEN MainResult(1, "SyncDir", NoPanic, Err("failed to sync directory to disk", ""), m, file)
    ELSE IF fault.phase = "CloseDir"
    THEN MainResult(1, "CloseDir", NoPanic, Err("failed to close directory", ""), m, file)
    ELSE MainResult(0, "done", NoPanic, NoErr, m, file)

\* Main after builder.Build returned r: what Build wrote is in the output file
\* whether or not Build succeeded, and nothing removes the file
mainBuilt(r, fault) ==
    IF r.panic # NoPanic
    THEN MainResult(2, "Build", r.panic, NoErr, r.manifest, [exists |-> TRUE, sink |-> r.sink])
    ELSE IF ~r.err.nil
    THEN MainResult(1, "Build", NoPanic, r.err, r.manifest, [exists |-> TRUE, sink |-> r.sink])
    ELSE IF fault.phase = "Sync"
    THEN MainResult(1, "Sync", NoPanic, Err("failed to sync output file to disk", ""),
                    r.manifest, [exists |-> TRUE, sink |-> r.sink])
    ELSE mainSynced(r.manifest, [exists |-> TRUE, sink |-> r.sink], fault)

\* Main from the construction of the builder on: the output file is opened with
\* O_CREATE and O_TRUNC, then Build writes to it
Main(compress, m, fileSystem, file, fault) ==
    IF fault.phase = "OpenOutput"
    THEN MainResult(1, "OpenOutput", NoPanic, Err("failed to create output file", ""), m, file)
    ELSE mainBuilt(Build(NewBuilder(compress, <<>>), m, fileSystem, fault), fault)

(***************************************************************************)
(* writeArEntry alone: one call on a name, a size and a stream.            *)
(***************************************************************************)

\* the entry names: empty, short, the longest of the program, 16 and 17 bytes
ArNames ==
    { <<>>, <<"a">>, <<"d","e","b","i","a","n","-","b","i","n","a","r","y">>, <<"c","o","n","t","r","o","l",".","t","a","r",".","z","s","t","d">>, <<"c","o","n","t","r","o","l",".","t","a","r",".","z","s","t","d","x">> }

\* the declared sizes: odd and even, one to ten digits, and a negative one
ArSizes == {0, 1, 2, 9, 10, 4095, 4096, 999999999, 1000000000, 1999999999, -1}

\* the faults of one writeArEntry call
ArEntryFaults == {NoFault} \cup {Fault("ar", k, 0) : k \in {"arHeader", "arCopy", "arPad"}}

ArStart(name, size, streamLen) ==
    [name |-> name, size |-> size, streamLen |-> streamLen, called |-> FALSE,
     faulted |-> FALSE, result |-> ArResult(NoPanic, NoErr, <<>>)]

\* writeArEntry(w, name, size, r) with a fresh w and a stream r of streamLen bytes
ArEntryCall ==
    /\ ar.name # <<"idle">>
    /\ ~ar.called
    /\ \E fault \in ArEntryFaults :
          ar' = [ar EXCEPT !.called = TRUE, !.faulted = Faulted(fault),
                           !.result = writeArEntry(ar.name, ar.size,
                                                   Stream(<<>>, ar.streamLen, 0), 0, fault)]
    /\ UNCHANGED <<manifest, builder, out, last, ghost, prim, hashWriter>>

InitAr ==
    /\ \E name \in ArNames, size \in ArSizes :
       \E streamLen \in {size} \cup (IF size > 0 THEN {size - 1} ELSE {}) :
          ar = ArStart(name, size, streamLen)
    /\ manifest = IdleManifest
    /\ builder = IdleBuilder
    /\ out = NoOut
    /\ last = NotCalled
    /\ ghost = NoGhost
    /\ prim = PrimIdle
    /\ hashWriter = IdleHashWriter

NextAr == ArEntryCall

SpecAr == InitAr /\ [][NextAr]_vars

(***************************************************************************)
(* Validation alone: Manifest.Validate and Manifest.Resolve on manifests   *)
(* of one entry with every combination of the type-specific fields, and    *)
(* on manifests whose metadata is invalid in one field.                    *)
(***************************************************************************)

\* the values of an optional field of an entry: absent, or one of vals
Optional(vals) == { <<>> } \cup { <<v>> : v \in vals }

\* the entries validation is run on: every type under a name with and without a
\* trailing slash and under ".", with every combination of absent and present fields
ValidateFiles ==
    { [NewFile(name, type) EXCEPT !.Major = major, !.Minor = minor, !.Link = link,
                                  !.Path = path, !.Text = text, !.Bytes = bytes,
                                  !.IsConf = isConf] :
        name \in { <<"a">>, <<"a","/">>, <<".">> },
        type \in {TypeAUTO, TypeDIR, TypeREG, TypeLNK, TypeFIFO, TypeCHR, TypeBLK},
        major \in Optional({1}), minor \in Optional({3}),
        link \in Optional({ <<"x">>, <<"a","/",".",".","/","b">> }),
        path \in Optional({ <<"a">> }), text \in Optional({ <<1>> }),
        bytes \in Optional({ <<2>> }), isConf \in BOOLEAN }

\* the metadata validation is run on: valid, and invalid in one field
ValidateMetadata ==
    LET m == NewManifest(<<"f","o","o">>, <<"a","m","d","6","4">>, <<>>, <<>>)
    IN  { m,
          [m EXCEPT !.Section = <<"n","e","t">>, !.Priority = <<"o","p","t","i","o","n","a","l">>],
          [m EXCEPT !.Package = <<"F","o","o">>],
          [m EXCEPT !.Version = <<>>],
          [m EXCEPT !.Arch = <<>>],
          [m EXCEPT !.Arch = <<"a","m","d","_","6","4">>],
          [m EXCEPT !.Section = <<"N","e","t">>],
          [m EXCEPT !.Priority = <<"h","i","g","h">>],
          [m EXCEPT !.Maintainer = <<>>],
          [m EXCEPT !.ShortDescription = <<>>],
          [m EXCEPT !.LongDescription = << <<"a","\t","b">> >>] }

\* manifest.Validate(): a value method, the caller's manifest is left as it was
ValidateCall ==
    /\ Alive
    /\ last' = Called("Validate", NoPanic, ManifestValidate(manifest), NoFault)
    /\ UNCHANGED <<manifest, builder, out, ghost, prim, ar, hashWriter>>

InitValidate ==
    /\ \/ manifest \in ValidateMetadata
       \/ \E file \in ValidateFiles :
             manifest = NewManifest(<<"f","o","o">>, <<"a","m","d","6","4">>, <<>>, <<file>>)
    /\ builder = IdleBuilder
    /\ out = NoOut
    /\ last = NotCalled
    /\ ghost = NoGhost
    /\ prim = PrimIdle
    /\ ar = IdleAr
    /\ hashWriter = IdleHashWriter

NextValidate == ValidateCall \/ ResolveCall

SpecValidate == InitValidate /\ [][NextValidate]_vars

(***************************************************************************)
(* Rendering: the caller resolves a manifest, edits it, and calls the      *)
(* rendering methods, which return bytes (or nil) or panic.  The bytes a   *)
(* rendering method returned are the sink of the call.                     *)
(***************************************************************************)

\* the optional metadata fields of the control file, Arch aside
OptionalFields ==
    {"Section", "Priority", "Essential", "Depends", "PreDepends", "Recommends",
     "Suggests", "Enhances", "Breaks", "Conflicts", "HomePage", "BuiltUsing"}

\* a valid value of an optional field
FieldValue(field) ==
    CASE field = "Section" -> <<"n","e","t">>
      [] field = "Priority" -> <<"o","p","t","i","o","n","a","l">>
      [] field = "Essential" -> <<"y","e","s">>
      [] field = "Depends" -> <<"l","i","b","c","6">>
      [] field = "PreDepends" -> <<"d","p","k","g">>
      [] field = "Recommends" -> <<"r">>
      [] field = "Suggests" -> <<"s">>
      [] field = "Enhances" -> <<"e">>
      [] field = "Breaks" -> <<"b">>
      [] field = "Conflicts" -> <<"c">>
      [] field = "HomePage" -> <<"h","t","t","p",":","/","/","h">>
      [] field = "BuiltUsing" -> <<"g","o">>

\* a valid manifest in which exactly the optional fields of present are set
RenderManifest(present, longDescription, files) ==
    LET value(field) == IF field \in present THEN FieldValue(field) ELSE <<>>
    IN  [NewManifest(<<"f","o","o">>, <<"a","m","d","6","4">>, <<>>, files) EXCEPT
            !.Section = value("Section"), !.Priority = value("Priority"),
            !.Essential = value("Essential"), !.Depends = value("Depends"),
            !.PreDepends = value("PreDepends"), !.Recommends = value("Recommends"),
            !.Suggests = value("Suggests"), !.Enhances = value("Enhances"),
            !.Breaks = value("Breaks"), !.Conflicts = value("Conflicts"),
            !.HomePage = value("HomePage"), !.BuiltUsing = value("BuiltUsing"),
            !.LongDescription = longDescription]

\* how many optional fields a manifest of the rendering runs may set or leave out
\* next to the manifests with none and with all of them
MaxFieldsApart == 2

\* the sets of optional fields the manifests have: few or nearly all
RenderPresent ==
    {S \in SUBSET OptionalFields :
        \/ Cardinality(S) <= MaxFieldsApart
        \/ Cardinality(OptionalFields \ S) <= MaxFieldsApart}

RenderLongDescriptions == { <<>>, << <<"l","o","n","g">> >>, << <<"o","n","e">>, <<>>, <<"t","w","o">> >> }

RenderFiles ==
    { <<>>, << [NewFile(<<"t","e","n">>, TypeREG) EXCEPT !.IsConf = TRUE] >> }

\* the rendering methods
RenderOps ==
    {"ControlFile", "ConfFiles", "PreInstallScript", "PostInstallScript",
     "PreRemoveScript", "PostRemoveScript"}

\* a rendering method on m: each panics unless m is marked resolved, and returns
\* its bytes as an optional, <<>> for nil
Render(op, m) ==
    IF ~m.isResolved THEN [panic |-> "must call Resolve first", data |-> <<>>]
    ELSE [panic |-> NoPanic,
          data |-> CASE op = "ControlFile" -> <<ControlFile(m)>>
                     [] op = "ConfFiles" -> ConfFiles(m)
                     [] op = "PreInstallScript" -> PreInstallScript(m)
                     [] op = "PostInstallScript" -> PostInstallScript(m)
                     [] op = "PreRemoveScript" -> PreRemoveScript(m)
                     [] op = "PostRemoveScript" -> PostRemoveScript(m)]

RenderReturned(op, r) ==
    /\ last' = Called(op, r.panic, NoErr, NoFault)
    /\ out' = [w |-> NoPartition,
               sink |-> IF r.data = <<>> THEN <<>> ELSE <<Bytes(r.data[1])>>]
    /\ UNCHANGED <<manifest, builder, ghost, prim, ar, hashWriter>>

\* manifest.ControlFile(), manifest.ConfFiles(), or a script renderer
RenderCall ==
    /\ Alive
    /\ \E op \in RenderOps : RenderReturned(op, Render(op, manifest))

\* the caller assigns to the exported field Arch: the empty string, or a valid value
EditCall ==
    /\ Alive
    /\ manifest' = [manifest EXCEPT !.Arch = IF @ = <<>> THEN <<"a","m","d","6","4">> ELSE <<>>]
    /\ last' = Called("Edit", NoPanic, NoErr, NoFault)
    /\ out' = NoOut
    /\ UNCHANGED <<builder, ghost, prim, ar, hashWriter>>

InitRender ==
    /\ \E present \in RenderPresent, longDescription \in RenderLongDescriptions,
          files \in RenderFiles :
          manifest = RenderManifest(present, longDescription, files)
    /\ builder = IdleBuilder
    /\ out = NoOut
    /\ last = NotCalled
    /\ ghost = NoGhost
    /\ prim = PrimIdle
    /\ ar = IdleAr
    /\ hashWriter = IdleHashWriter

NextRender == ResolveCall \/ EditCall \/ RenderCall

SpecRender == InitRender /\ [][NextRender]_vars

(***************************************************************************)
(* Build under a wall clock.  The clock is part of the environment: it     *)
(* changes between calls, and ghost.now is its reading.  ghost.earlier is  *)
(* history: what the last successful Build before the clock last changed   *)
(* wrote to its sink.                                                      *)
(***************************************************************************)

\* the longest file list of a manifest built under the clock
MaxClockFiles == 2

\* an explicit modification time of an entry
ExplicitMTime == 1500000000

\* the entries: regular files without and with an explicit mtime, and a directory
ClockFiles ==
    { [NewFile(<<"x">>, TypeREG) EXCEPT !.Bytes = << <<1, 2, 3>> >>],
      [NewFile(<<"y">>, TypeREG) EXCEPT !.Text = << <<2>> >>, !.MTime = ExplicitMTime],
      NewFile(<<"d">>, TypeDIR) }

\* the readings of the clock
ClockTimes == {1700000000, 1800000000}

\* time passes
TickCall ==
    /\ Alive
    /\ \E now \in ClockTimes \ {ghost.now} :
          ghost' = [ghost EXCEPT !.now = now,
                                 !.earlier = IF last.op = "Build" /\ last.err.nil
                                             THEN out.sink ELSE @]
    /\ UNCHANGED <<manifest, builder, out, last, prim, ar, hashWriter>>

InitClock ==
    /\ \E files \in SeqsUpTo(ClockFiles, MaxClockFiles) :
          manifest = NewManifest(<<"f","o","o">>, <<"a","m","d","6","4">>, <<>>, files)
    /\ builder \in Builders
    /\ out = NoOut
    /\ last = NotCalled
    /\ \E now \in ClockTimes : ghost = [dataBuilt |-> FALSE, now |-> now, earlier |-> <<>>]
    /\ prim = PrimIdle
    /\ ar = IdleAr
    /\ hashWriter = IdleHashWriter

NextClock == TickCall \/ BuildCall

SpecClock == InitClock /\ [][NextClock]_vars

(***************************************************************************)
(* The round trip of the typed primitives: a value is formatted, the text  *)
(* is parsed, and the parsed value is formatted again.                     *)
(***************************************************************************)

TypeValues == TypeAUTO..TypeBLK

\* Perm is a uint16 of which 12 bits are permission bits
PermValues == 0..4095

OwnerIDs == {0, 7, 1000, -1}

OwnerNames == { <<"r","o","o","t">>, <<"w","w","w","-","d","a","t","a">>, <<"#">>, <<"#","x">>, <<"#","7">>, <<"#","0","0","7">>, <<"#","+","5">>, <<"#","-","0">> }

OwnerValues ==
    {OwnerZero} \cup {OwnerID(id) : id \in OwnerIDs} \cup {OwnerName(n) : n \in OwnerNames}

HashValues == HashMD5..HashSHA256

CompressValues == CompressAuto..CompressZSTD

\* the String method of each primitive
PrimFormat(kind, v) ==
    CASE kind = "Type" -> TypeString(v)
      [] kind = "Perm" -> PermString(v)
      [] kind = "Owner" -> OwnerString(v)
      [] kind = "Hash" -> HashString(v)
      [] kind = "Compress" -> CompressString(v)

\* the Parse method of each primitive
PrimParse(kind, text) ==
    CASE kind = "Type" -> TypeParse(text)
      [] kind = "Perm" -> PermParse(text)
      [] kind = "Owner" -> OwnerParse(text)
      [] kind = "Hash" -> HashParse(text)
      [] kind = "Compress" -> CompressParse(text)

PrimFormatStep ==
    /\ prim.stage = "value"
    /\ prim.kind # "none"
    /\ prim' = [prim EXCEPT !.stage = "formatted", !.text = PrimFormat(prim.kind, prim.v)]
    /\ UNCHANGED <<manifest, builder, out, last, ghost, ar, hashWriter>>

PrimParseStep ==
    /\ prim.stage = "formatted"
    /\ LET r == PrimParse(prim.kind, prim.text)
       IN  prim' = [prim EXCEPT !.stage = "parsed", !.perr = r.err, !.pv = r.value]
    /\ UNCHANGED <<manifest, builder, out, last, ghost, ar, hashWriter>>

PrimReformatStep ==
    /\ prim.stage = "parsed"
    /\ ~prim.perr
    /\ prim' = [prim EXCEPT !.stage = "reformatted", !.text2 = PrimFormat(prim.kind, prim.pv)]
    /\ UNCHANGED <<manifest, builder, out, last, ghost, ar, hashWriter>>

InitPrim ==
    /\ \/ \E v \in TypeValues : prim = PrimStart("Type", v)
       \/ \E v \in PermValues : prim = PrimStart("Perm", v)
       \/ \E v \in OwnerValues : prim = PrimStart("Owner", v)
       \/ \E v \in HashValues : prim = PrimStart("Hash", v)
       \/ \E v \in CompressValues : prim = PrimStart("Compress", v)
    /\ manifest = IdleManifest
    /\ builder = IdleBuilder
    /\ out = NoOut
    /\ last = NotCalled
    /\ ghost = NoGhost
    /\ ar = IdleAr
    /\ hashWriter = IdleHashWriter

NextPrim == PrimFormatStep \/ PrimParseStep \/ PrimReformatStep

SpecPrim == InitPrim /\ [][NextPrim]_vars

\* the round trip has gone wrong in this state: the parse failed, or the second text differs
PrimRoundTripBroken ==
    \/ prim.stage = "parsed" /\ prim.perr
    \/ prim.stage = "reformatted" /\ prim.text2 # prim.text

\* C9: for every entry type value, parsing the formatted text succeeds and formatting
\* the parsed value gives the same text.
C9_TypeRoundTrip == prim.kind = "Type" => ~PrimRoundTripBroken

\* C10: for every Permission, Owner, HashAlgorithm and CompressAlgorithm value, parsing
\* the formatted text succeeds and formatting the parsed value gives the same text.
C10_PrimRoundTrip ==
    prim.kind \in {"Perm", "Owner", "Hash", "Compress"} => ~PrimRoundTripBroken

(***************************************************************************)
(* One run of the command-line harness.  builder.Compression is the value  *)
(* of the -c flag; out is the file at the output path, and ghost.before is *)
(* history: that file as it was before the run.                            *)
(***************************************************************************)

\* the entries of the manifests the harness is run on: those of the pipeline, and a
\* regular file the content root does not have
MainFiles == PipelineFiles \cup { NewFile(<<"n","o","f","i","l","e">>, TypeREG) }

\* the longest file list of a manifest the harness is run on
MaxMainFiles == 1

\* the faults of one run: those of Build, and those of the harness's own steps
MainFaults ==
    BuildFaults
    \cup {Fault(p, "none", 0) : p \in {"OpenOutput", "Sync", "Close", "OpenDir", "SyncDir", "CloseDir"}}

\* the file at the output path before the run: none, or an earlier package
OutputFiles ==
    { [w |-> NoPartition, exists |-> FALSE, sink |-> <<>>],
      [w |-> NoPartition, exists |-> TRUE, sink |-> <<Bytes(<<"!","<","a","r","c","h",">","\n","o","l","d">>)>>] }

MainReturned(r, fault) ==
    /\ manifest' = r.manifest
    /\ out' = [w |-> NoPartition, exists |-> r.file.exists, sink |-> r.file.sink]
    /\ last' = [op |-> "Main", panic |-> r.panic, err |-> r.err,
                faulted |-> fault # Fault("none", "none", 0),
                exit |-> r.exit, stage |-> r.stage]
    /\ UNCHANGED <<builder, ghost, prim, ar, hashWriter>>

\* mkdeb -R root -m manifest -o output -c compression, once
MainCall ==
    /\ last.op = "none"
    /\ \E fault \in MainFaults :
          MainReturned(Main(builder.Compression, manifest, RootFS,
                            [exists |-> out.exists, sink |-> out.sink], fault), fault)

InitMain ==
    /\ \E files \in SeqsUpTo(MainFiles, MaxMainFiles), arch \in { <<"a","m","d","6","4">>, <<"a","m","d","_","6","4">> } :
          manifest = NewManifest(<<"f","o","o">>, arch, <<>>, files)
    /\ \E compress \in CompressValues : builder = NewBuilder(compress, <<>>)
    /\ out \in OutputFiles
    /\ last = NotCalled
    /\ ghost = [dataBuilt |-> FALSE, before |-> out]
    /\ prim = PrimIdle
    /\ ar = IdleAr
    /\ hashWriter = IdleHashWriter

NextMain == MainCall

SpecMain == InitMain /\ [][NextMain]_vars

(***************************************************************************)
(* hashWriter alone: a hashWriter over a tar writer whose open entry is a  *)
(* regular file, and a sequence of Write calls on it.  The underlying      *)
(* write takes all of the chunk, or what the entry has room for, or fails  *)
(* after any part of that.                                                 *)
(***************************************************************************)

\* the largest declared size of the open entry
MaxBody == 3

\* the most Write calls on one hashWriter
MaxWrites == 3

\* the values of Builder.Hashes
HashLists ==
    { <<>>, <<HashMD5>>, <<HashSHA256, HashMD5>>, <<HashMD5, HashSHA1, HashSHA256>>,
      <<HashSHA1, HashSHA1>> }

\* the chunks handed to Write
HashChunks == SeqsUpTo({1, 2}, ChunkLen)

\* the hashWriter BuildDataTarball makes for a regular file of the given size: over
\* the tar writer after WriteHeader, for a builder with the given Hashes
HashWriterStart(hashes, size) ==
    NewHashWriter(tarWriteHeader(NewTarWriter, [Typeflag |-> "TypeReg", Size |-> size]).tw,
                  NewBuilder(CompressNone, <<hashes>>))

\* a failing write of the underlying writer that took the first k bytes of p
tarWriteFailed(tw, p, k) ==
    [n |-> k, err |-> TRUE, tw |-> [tw EXCEPT ![Len(tw)].body = @ \o SubSeq(p, 1, k)]]

\* the returns of hw.file.Write(p): that of the tar writer, and a failure of the
\* stream below it after any part of what the tar writer takes
UnderlyingWrites(tw, p) ==
    {tarWrite(tw, p)} \cup {tarWriteFailed(tw, p, k) : k \in 0..tarWrite(tw, p).n}

HashWriteReturned(r) ==
    /\ hashWriter' = [file |-> r.hw.file, hashers |-> r.hw.hashers, n |-> r.n,
                      err |-> r.err, writes |-> hashWriter.writes + 1]
    /\ UNCHANGED <<manifest, builder, out, last, ghost, prim, ar>>

\* hw.Write(p)
HashWriteCall ==
    /\ hashWriter.file # NewTarWriter
    /\ hashWriter.writes < MaxWrites
    /\ \E p \in HashChunks :
       \E w \in UnderlyingWrites(hashWriter.file, p) :
          HashWriteReturned(hashWriterFed(hashWriter, p, w))

InitHash ==
    /\ \E hashes \in HashLists, size \in 0..MaxBody :
          hashWriter = HashWriterStart(hashes, size) @@ IdleHashWriter
    /\ manifest = IdleManifest
    /\ builder = IdleBuilder
    /\ out = NoOut
    /\ last = NotCalled
    /\ ghost = NoGhost
    /\ prim = PrimIdle
    /\ ar = IdleAr

NextHash == HashWriteCall

SpecHash == InitHash /\ [][NextHash]_vars

(***************************************************************************)
(* Build and its temporary directory.  ghost.calls is history: the calls   *)
(* the last Build made on its temporary directory and its two temporary    *)
(* files, in order.                                                        *)
(***************************************************************************)

\* the longest file list of a manifest Build is run on here
MaxTempFiles == 1

\* the faults of one Build call, with the OpenFile of either temporary file
TempFaults == BuildFaults \cup {Fault("OpenFile", "none", 1)}

BuildTempReturned(r, fault) ==
    /\ manifest' = r.manifest
    /\ last' = Called("Build", r.panic, r.err, fault)
    /\ out' = [w |-> NoPartition, sink |-> r.sink]
    /\ ghost' = [dataBuilt |-> ghost.dataBuilt \/ r.dataBuilt, calls |-> buildTempCalls(r.at)]
    /\ UNCHANGED <<builder, prim, ar, hashWriter>>

\* builder.Build(w, manifest) with a fresh w
BuildTempCall ==
    /\ Alive
    /\ \E fault \in TempFaults :
          BuildTempReturned(Build(builder, manifest, RootFS, fault), fault)

InitTemp ==
    /\ \E files \in SeqsUpTo(MainFiles, MaxTempFiles) :
          manifest = NewManifest(<<"f","o","o">>, <<"a","m","d","6","4">>, <<>>, files)
    /\ builder \in Builders
    /\ out = NoOut
    /\ last = NotCalled
    /\ ghost = [dataBuilt |-> FALSE, calls |-> <<>>]
    /\ prim = PrimIdle
    /\ ar = IdleAr
    /\ hashWriter = IdleHashWriter

NextTemp == BuildTempCall

SpecTemp == InitTemp /\ [][NextTemp]_vars

(***************************************************************************)
(* Validate and Resolve on the same manifest: a caller validates a         *)
(* manifest and resolves it, in any order and any number of times.         *)
(***************************************************************************)

\* the longest file list of a manifest that is validated and resolved
MaxAcceptFiles == 3

\* the entries: a directory as Auto with a slash, as Directory with and without
\* one, entries below it and below an implicit directory, a regular file of the
\* directory's name, and a regular file the content root does not have
AcceptFiles ==
    { NewFile(<<"d","/">>, TypeAUTO),
      NewFile(<<"d">>, TypeDIR),
      NewFile(<<"d","/">>, TypeDIR),
      NewFile(<<"d","/","b">>, TypeAUTO),
      NewFile(<<"e">>, TypeREG),
      [NewFile(<<"d">>, TypeREG) EXCEPT !.Bytes = << <<1>> >>],
      [NewFile(<<"u","s","r","/","f">>, TypeREG) EXCEPT !.Text = << <<1, 2>> >>],
      NewFile(<<"n","o","f","i","l","e">>, TypeREG) }

InitAccept ==
    /\ \E files \in SeqsUpTo(AcceptFiles, MaxAcceptFiles) :
       \E implicitDirs \in { <<>>, << <<"u","s","r","/">> >> } :
          manifest = NewManifest(<<"f","o","o">>, <<"a","m","d","6","4">>, implicitDirs, files)
    /\ builder = IdleBuilder
    /\ out = NoOut
    /\ last = NotCalled
    /\ ghost = NoGhost
    /\ prim = PrimIdle
    /\ ar = IdleAr
    /\ hashWriter = IdleHashWriter

NextAccept == ValidateCall \/ ResolveCall

SpecAccept == InitAccept /\ [][NextAccept]_vars

(***************************************************************************)
(* Properties of the pipeline                                              *)
(***************************************************************************)

\* the tar layer and the compression layer of the partition are closed
Sealed(p) == p.begun /\ p.tarClosed /\ p.cwClosed

Succeeded(op) == last.op = op /\ last.panic = NoPanic /\ last.err.nil

\* C1: on a resolved manifest no BuildDataTarball call has succeeded for,
\* BuildControlTarball panics and its writer stays untouched; once a BuildDataTarball
\* call has succeeded, BuildControlTarball does not panic and, when no I/O step
\* fails, returns nil with the partition sealed.
C1_ControlAfterData ==
    (last.op = "BuildControlTarball" /\ manifest.isResolved) =>
        IF ghost.dataBuilt
        THEN /\ last.panic = NoPanic
             /\ ~last.faulted => (last.err.nil /\ Sealed(out.w))
        ELSE /\ last.panic = "must call BuildDataTarball first"
             /\ out.w = NoPartition

C1_Witness ==
    /\ Succeeded("BuildControlTarball")
    /\ ghost.dataBuilt
    /\ ~last.faulted
    /\ Sealed(out.w)
    /\ manifest.Files # <<>>

\* C8: with a compression algorithm of the closed set, no call ends in the panic of
\* NewWriter's default case.
C8_NewWriterNeverAborts ==
    builder.Compression \in CompressValues => last.panic # "not implemented"

(***************************************************************************)
(* What a successful Build has written to its sink                         *)
(***************************************************************************)

IsCopy(item) == item.kind = "copy"

\* the streams Build copied into the sink, in order
CopiedStreams == SelectSeq(out.sink, IsCopy)

\* the control partition and the data partition a successful Build copied
ControlPartition == CopiedStreams[2].content

DataPartition == CopiedStreams[3].content

\* the data partition of the last call, a BuildDataTarball or a Build
DataWritten == IF last.op = "Build" THEN DataPartition ELSE out.w

\* the algorithms the builder hashes with, in order
ConfiguredHashes == IF builder.Hashes = <<>> THEN <<HashMD5, HashSHA1, HashSHA256>> ELSE builder.Hashes[1]

IsRegular(file) == file.Type = TypeREG

IsChecksumEntry(entry) == entry.hdr.Name \in { <<"m","d","5","s","u","m">>, <<"s","h","a","1","s","u","m">>, <<"s","h","a","2","5","6","s","u","m">> }

IsLowerHex(text) == \A i \in 1..Len(text) : text[i] \in SeqToSet(<<"0","1","2","3","4","5","6","7","8","9","a","b","c","d","e","f">>)

RECURSIVE ExpectedChecksums(_, _)
\* one line for each regular file of the list, in the order of the list
ExpectedChecksums(files, algo) ==
    IF files = <<>> THEN <<>>
    ELSE (IF IsRegular(Head(files))
          THEN HexEncode(Head(files).hashes[algo]) \o <<" "," ">> \o Head(files).Name \o <<"\n">>
          ELSE <<>>)
         \o ExpectedChecksums(Tail(files), algo)

\* C2: the control partition of a successful Build holds one checksum file for each
\* configured algorithm, in the configured order and under the algorithm's file name;
\* its content is one line for each regular file of the manifest and none for any
\* other entry, in the order of the manifest, each the lowercase hex digest, two
\* spaces, the name and a newline.
C2_ChecksumFiles ==
    Succeeded("Build") =>
        LET sums == SelectSeq(ControlPartition.entries, IsChecksumEntry)
        IN  /\ Len(sums) = Len(ConfiguredHashes)
            /\ \A k \in 1..Len(sums) :
                  /\ sums[k].hdr.Name = HashFileName(ConfiguredHashes[k])
                  /\ sums[k].body = ExpectedChecksums(manifest.Files, ConfiguredHashes[k])
            /\ \A i \in 1..Len(manifest.Files) : \A a \in SeqToSet(ConfiguredHashes) :
                  IsRegular(manifest.Files[i]) =>
                      /\ Len(manifest.Files[i].hashes[a]) = 2
                      /\ IsLowerHex(HexEncode(manifest.Files[i].hashes[a]))

C2_Witness ==
    /\ Succeeded("Build")
    /\ Len(ConfiguredHashes) >= 2
    /\ \E i, j \in 1..Len(manifest.Files) :
          IsRegular(manifest.Files[i]) /\ ~IsRegular(manifest.Files[j])
    /\ Len(SelectSeq(ControlPartition.entries, IsChecksumEntry)) >= 2

\* C3: after a successful BuildDataTarball or Build, the digest stored on every regular
\* file for every configured algorithm is the algorithm's hash of the body of the file's
\* entry in the data partition, and after a Build the checksum file prints that hash.
C3_DigestOfBody ==
    (Succeeded("BuildDataTarball") \/ Succeeded("Build")) =>
        /\ Len(DataWritten.entries) = Len(manifest.Files)
        /\ \A i \in 1..Len(manifest.Files) :
              /\ DataWritten.entries[i].hdr.Name = manifest.Files[i].Name
              /\ IsRegular(manifest.Files[i]) =>
                    \A a \in SeqToSet(ConfiguredHashes) :
                        /\ a \in DOMAIN manifest.Files[i].hashes
                        /\ manifest.Files[i].hashes[a] = Digest(a, DataWritten.entries[i].body)
                        /\ Succeeded("Build") =>
                              \E e \in SeqToSet(ControlPartition.entries) :
                                  /\ e.hdr.Name = HashFileName(a)
                                  /\ \E k \in 0..(Len(e.body) - 4) :
                                        SubSeq(e.body, k + 1, k + 4)
                                            = HexEncode(Digest(a, DataWritten.entries[i].body))

\* a regular file with content from each of two sources has been hashed
C3_Witness ==
    /\ Succeeded("BuildDataTarball")
    /\ Len(ConfiguredHashes) >= 2
    /\ \E i, j \in 1..Len(manifest.Files) :
          /\ manifest.Files[i].Path # <<>>
          /\ manifest.Files[j].Bytes # <<>>
          /\ Len(DataWritten.entries[i].body) > 0
          /\ Len(DataWritten.entries[j].body) > ChunkLen
          /\ manifest.Files[j].isHashed

\* text left-justified in n columns
PadRight(text, n) == text \o [k \in 1..(n - Len(text)) |-> " "]

RECURSIVE ArEntries(_)
\* the entries of an ar container read from the writes after the magic: a header,
\* a copied stream and, if one follows, a newline pad
ArEntries(items) ==
    IF Len(items) < 2 \/ items[1].kind # "bytes" \/ items[2].kind # "copy"
    THEN IF items = <<>> THEN <<>> ELSE << [hdr |-> <<>>, body |-> items[1], padded |-> FALSE] >>
    ELSE IF Len(items) >= 3 /\ items[3] = Bytes(<<"\n">>)
    THEN << [hdr |-> items[1].bytes, body |-> items[2], padded |-> TRUE] >>
         \o ArEntries(SubSeq(items, 4, Len(items)))
    ELSE << [hdr |-> items[1].bytes, body |-> items[2], padded |-> FALSE] >>
         \o ArEntries(SubSeq(items, 3, Len(items)))

\* the suffix the claim gives each algorithm a Build can succeed with
ExpectedSuffix ==
    CASE builder.Compression = CompressAuto -> <<".","g","z">>
      [] builder.Compression = CompressGZIP -> <<".","g","z">>
      [] builder.Compression = CompressXZ -> <<".","x","z">>
      [] builder.Compression = CompressZSTD -> <<".","z","s","t","d">>
      [] OTHER -> <<>>

\* the entry carries this name, and it declares and copies the whole of a sealed
\* partition from its start
IsPartitionEntry(entry, name) ==
    /\ Len(entry.hdr) = 60
    /\ SubSeq(entry.hdr, 1, 16) = PadRight(name, 16)
    /\ Sealed(entry.body.content)
    /\ SubSeq(entry.hdr, 49, 58) = PadRight(FormatInt(PartitionLen(entry.body.content)), 10)
    /\ entry.body.from = 0
    /\ entry.body.n = PartitionLen(entry.body.content)
    /\ entry.padded = (PartitionLen(entry.body.content) % 2 = 1)

\* C4: a successful Build writes the magic first and then exactly three entries:
\* debian-binary with the content "2.0\n", control.tar<suffix> and data.tar<suffix>,
\* the suffix being that of the builder's algorithm with Auto read as Gzip; each of the
\* two partition entries declares the length of its sealed partition and copies the
\* partition from its start.
C4_ContainerLayout ==
    Succeeded("Build") =>
        /\ out.sink # <<>>
        /\ out.sink[1] = Bytes(<<"!","<","a","r","c","h",">","\n">>)
        /\ LET entries == ArEntries(Tail(out.sink))
           IN  /\ Len(entries) = 3
               /\ Len(entries[1].hdr) = 60
               /\ SubSeq(entries[1].hdr, 1, 16) = PadRight(<<"d","e","b","i","a","n","-","b","i","n","a","r","y">>, 16)
               /\ SubSeq(entries[1].hdr, 49, 58) = PadRight(<<"4">>, 10)
               /\ entries[1].body = [kind |-> "copy", content |-> <<"2",".","0","\n">>, from |-> 0, n |-> 4]
               /\ ~entries[1].padded
               /\ IsPartitionEntry(entries[2], <<"c","o","n","t","r","o","l",".","t","a","r">> \o ExpectedSuffix)
               /\ entries[2].body.content.entries[1].hdr.Name = <<"c","o","n","t","r","o","l">>
               /\ IsPartitionEntry(entries[3], <<"d","a","t","a",".","t","a","r">> \o ExpectedSuffix)
               /\ [i \in 1..Len(entries[3].body.content.entries) |->
                      entries[3].body.content.entries[i].hdr.Name]
                  = [i \in 1..Len(manifest.Files) |-> manifest.Files[i].Name]

\* a Build with Auto has succeeded, and one of its partitions has an odd length
C4_Witness ==
    /\ Succeeded("Build")
    /\ builder.Compression = CompressAuto
    /\ manifest.Files # <<>>
    /\ \E k \in 2..3 : ArEntries(Tail(out.sink))[k].padded


(***************************************************************************)
(* The order of the pipeline                                               *)
(***************************************************************************)

\* C18: Resolve puts the manifest back in the Resolved state: a BuildControlTarball
\* that follows a Resolve, with no BuildDataTarball in between, panics, also when a
\* BuildDataTarball had succeeded before that Resolve.
C18_ResolveRestartsPipeline ==
    [][(last.op = "Resolve" /\ last'.op = "BuildControlTarball") =>
          last'.panic # NoPanic]_vars

\* C19: whenever the manifest is marked data-hashed, every regular file is marked
\* hashed and holds a digest for every algorithm the control build writes a checksum
\* file for, so that no checksum file leaves out a regular file or prints an empty digest.
C19_HashedMeansAllDigests ==
    manifest.isHashed =>
        \A i \in 1..Len(manifest.Files) :
            IsRegular(manifest.Files[i]) =>
                /\ manifest.Files[i].isHashed
                /\ \A a \in SeqToSet(ConfiguredHashes) :
                      /\ a \in DOMAIN manifest.Files[i].hashes
                      /\ manifest.Files[i].hashes[a] # <<>>

(***************************************************************************)
(* What Build owes its sink to                                             *)
(***************************************************************************)

\* the errors of Build that writeArFile and the removal of the temporary directory
\* return, after the three phases
AfterPhasesErrors == {"Seek", "Write", "Copy", "failed to clean up temporary directory"}

\* the call ended before writeArFile: in a panic, or in an error of Resolve, of the
\* temporary files or of a partition build
EndedInPhases(call) ==
    \/ call.panic # NoPanic
    \/ ~call.err.nil /\ call.err.field \notin AfterPhasesErrors

\* the partitions copied into the sink are the sealed partitions control and data
SinkOfPartitions(copies, control, data) ==
    /\ Sealed(control)
    /\ Sealed(data)
    /\ Len(copies) >= 2 => copies[2].content = control
    /\ Len(copies) >= 3 => copies[3].content = data

\* the control phase on the manifest the data phase d left has succeeded, and the
\* manifest and the sink after Build are its work
ControlPhaseDone(b, d, c, after, sink) ==
    /\ c.panic = NoPanic
    /\ c.err.nil
    /\ after = c.manifest
    /\ SinkOfPartitions(SelectSeq(sink, IsCopy), c.w, d.w)

\* the data phase on the resolved manifest has succeeded, and the control phase after it
DataPhaseDone(b, d, after, sink) ==
    /\ d.panic = NoPanic
    /\ d.err.nil
    /\ ControlPhaseDone(b, d, BuildControlTarball(b, d.manifest, NoFault), after, sink)

\* Resolve of the manifest before the call has succeeded, and the phases after it
ResolvePhaseDone(b, rs, after, sink) ==
    /\ rs.err.nil
    /\ DataPhaseDone(b, BuildDataTarball(b, rs.manifest, RootFS, NoFault), after, sink)

\* C22: Build writes to its sink only after Resolve, the data partition build and the
\* control partition build have succeeded in that order, each partition with its tar
\* layer and then its compression layer closed; a Build that ends in one of these
\* phases has written nothing to the sink.
C22_SinkOnlyAfterPhases ==
    [][last'.op = "Build" =>
          /\ out'.sink # <<>> =>
                ResolvePhaseDone(fillDefaults(builder), ManifestResolve(manifest, RootFS),
                                 manifest', out'.sink)
          /\ EndedInPhases(last') => out'.sink = <<>>]_vars

\* a Build that failed in writeArFile after it had copied the control partition
C22_Witness ==
    /\ last.op = "Build"
    /\ ~last.err.nil
    /\ Len(CopiedStreams) = 2
    /\ Sealed(ControlPartition)
    /\ manifest.isHashed
    /\ manifest.Files # <<>>
(***************************************************************************)
(* What BuildControlTarball writes                                         *)
(***************************************************************************)

\* the names of the maintainer scripts whose line list is not empty, in order
ScriptNames(m) ==
    (IF m.PreInstall # <<>> THEN << <<"p","r","e","i","n","s","t">> >> ELSE <<>>)
    \o (IF m.PostInstall # <<>> THEN << <<"p","o","s","t","i","n","s","t">> >> ELSE <<>>)
    \o (IF m.PreRemove # <<>> THEN << <<"p","r","e","r","m">> >> ELSE <<>>)
    \o (IF m.PostRemove # <<>> THEN << <<"p","o","s","t","r","m">> >> ELSE <<>>)

\* the names of the entries of the control partition, in order
ExpectedControlNames(m) ==
    << <<"c","o","n","t","r","o","l">> >>
    \o [k \in 1..Len(ConfiguredHashes) |-> HashFileName(ConfiguredHashes[k])]
    \o << <<"c","o","n","f","f","i","l","e","s">> >>
    \o ScriptNames(m)

IsScriptName(name) == name \in { <<"p","r","e","i","n","s","t">>, <<"p","o","s","t","i","n","s","t">>, <<"p","r","e","r","m">>, <<"p","o","s","t","r","m">> }

\* C12: the control partition of a resolved and data-hashed manifest holds, in this
\* order, control, one checksum file for each configured algorithm, conffiles (whether
\* or not an entry is marked isConf), and each maintainer script exactly if it has
\* lines; the scripts carry mode 0755 and the other entries mode 0644.
C12_ControlEntries ==
    (Succeeded("BuildControlTarball") /\ ~last.faulted) =>
        /\ [k \in 1..Len(out.w.entries) |-> out.w.entries[k].hdr.Name]
              = ExpectedControlNames(manifest)
        /\ \A k \in 1..Len(out.w.entries) :
              out.w.entries[k].hdr.Mode.perm
                  = (IF IsScriptName(out.w.entries[k].hdr.Name) THEN 493 ELSE 420)

\* the same with conffiles left out when no entry is marked isConf
ControlEntriesButConffiles ==
    (Succeeded("BuildControlTarball") /\ ~last.faulted) =>
        /\ [k \in 1..Len(out.w.entries) |-> out.w.entries[k].hdr.Name]
              = SelectSeq(ExpectedControlNames(manifest),
                          LAMBDA n : n # <<"c","o","n","f","f","i","l","e","s">> \/ \E i \in 1..Len(manifest.Files) :
                                                            manifest.Files[i].IsConf)
        /\ \A k \in 1..Len(out.w.entries) :
              out.w.entries[k].hdr.Mode.perm
                  = (IF IsScriptName(out.w.entries[k].hdr.Name) THEN 493 ELSE 420)

(***************************************************************************)
(* The timestamps of a package                                             *)
(***************************************************************************)

\* 2020-01-01T00:00:00Z in seconds since the epoch
ReferenceTime == 1577836800

\* every timestamp of the package a successful Build wrote is the explicit mtime of
\* an entry or the reference time
StampsFixed ==
    /\ \A k \in 1..Len(ControlPartition.entries) :
          ControlPartition.entries[k].hdr.ModTime = ReferenceTime
    /\ \A i \in 1..Len(manifest.Files) :
          DataPartition.entries[i].hdr.ModTime
              = (IF manifest.Files[i].MTime # 0 THEN manifest.Files[i].MTime ELSE ReferenceTime)
    /\ \A k \in 1..3 :
          SubSeq(ArEntries(Tail(out.sink))[k].hdr, 17, 28) = PadRight(FormatInt(ReferenceTime), 12)

C5_ArEntryLayout ==
    (/\ ar.called
     /\ ~ar.faulted
     /\ Len(ar.name) <= 16
     /\ ar.size >= 0
     /\ ar.streamLen = ar.size) =>
        /\ ar.result.panic = NoPanic
        /\ ar.result.err.nil
        /\ Len(ar.result.items) = (IF ar.size % 2 = 1 THEN 3 ELSE 2)
        /\ ar.result.items[1].kind = "bytes"
        /\ Len(ar.result.items[1].bytes) = 60
        /\ SubSeq(ar.result.items[1].bytes, 1, 16) = PadRight(ar.name, 16)
        /\ SubSeq(ar.result.items[1].bytes, 49, 58) = PadRight(FormatInt(ar.size), 10)
        /\ DigitsValue(FormatInt(ar.size), 10, 0) = ar.size
        /\ ar.result.items[2] = [kind |-> "copy", content |-> <<>>, from |-> 0, n |-> ar.size]
        /\ ar.size % 2 = 1 => ar.result.items[3] = Bytes(<<"\n">>)
        /\ ItemsLen(ar.result.items) % 2 = 0

\* an entry of an odd ten-digit size under a 16-byte name has been written
C5_Witness ==
    /\ ar.called
    /\ ~ar.faulted
    /\ Len(ar.name) = 16
    /\ ar.size = 1999999999
    /\ ar.streamLen = ar.size
    /\ Len(ar.result.items) = 3

(***************************************************************************)
(* Properties of Manifest.Resolve                                          *)
(***************************************************************************)

\* the bytes of a regular file's content: inline, or in the content root
ContentSize(file) ==
    IF file.Bytes # <<>> THEN Len(file.Bytes[1])
    ELSE IF file.Text # <<>> THEN Len(file.Text[1])
    ELSE FSGet(RootFS, IF file.Path # <<>> THEN file.Path[1] ELSE file.Name).size

RoundUp4096(n) == ((n + 4095) \div 4096) * 4096

RECURSIVE RoundedSizes(_)
\* the sum over the regular files of the size rounded up to a multiple of 4096
RoundedSizes(files) ==
    IF files = <<>> THEN 0
    ELSE (IF IsRegular(Head(files)) THEN RoundUp4096(ContentSize(Head(files))) ELSE 0)
         + RoundedSizes(Tail(files))

Contains(text, part) ==
    \E k \in 0..(Len(text) - Len(part)) : SubSeq(text, k + 1, k + Len(part)) = part

\* C6: after a successful Resolve the installed size, which the control file reports
\* in its Installed-Size line, is the sum over the regular files of the resolved size
\* rounded up to the next multiple of 4096; other entries add nothing.
C6_InstalledSize ==
    Succeeded("Resolve") =>
        /\ \A i \in 1..Len(manifest.Files) :
              manifest.Files[i].size
                  = (IF IsRegular(manifest.Files[i]) THEN ContentSize(manifest.Files[i]) ELSE 0)
        /\ manifest.installedSize = RoundedSizes(manifest.Files)
        /\ Contains(ControlFile(manifest),
                    <<"\n","I","n","s","t","a","l","l","e","d","-","S","i","z","e",":"," ">> \o FormatInt(RoundedSizes(manifest.Files)) \o <<"\n">>)

\* files of 10, 4096 and 4097 bytes have been resolved to 16384
C6_Witness ==
    /\ Succeeded("Resolve")
    /\ {manifest.Files[i].size : i \in 1..Len(manifest.Files)} = {10, 4096, 4097}
    /\ Len(manifest.Files) = 3
    /\ manifest.installedSize = 16384

\* the directory a name lies in: what precedes its last slash, or "."
ParentOf(name) ==
    LET t == TrimRightSlash(name)
        slashes == {i \in 1..Len(t) : t[i] = "/"}
    IN  IF slashes = {} THEN <<".">>
        ELSE SubSeq(t, 1, (CHOOSE i \in slashes : \A j \in slashes : j <= i) - 1)

\* the parent of the entry at i is ".", an implicit directory, or an earlier Directory entry
ParentDeclared(m, i) ==
    \/ ParentOf(m.Files[i].Name) = <<".">>
    \/ \E k \in 1..Len(m.ImplicitDirs) :
          TrimRightSlash(m.ImplicitDirs[k]) = ParentOf(m.Files[i].Name)
    \/ \E j \in 1..(i - 1) :
          /\ m.Files[j].Type = TypeDIR
          /\ TrimRightSlash(m.Files[j].Name) = ParentOf(m.Files[i].Name)

\* C7: Resolve succeeds only if the parent directory of every entry is ".", is listed
\* in implicitDirs, or is a Directory entry earlier in the list; the error for a parent
\* that is not names the first entry without one.
C7_ParentDeclaredBefore ==
    last.op = "Resolve" =>
        /\ last.err.nil => \A i \in 1..Len(manifest.Files) : ParentDeclared(manifest, i)
        /\ (~last.err.nil /\ last.err.field = "directory") =>
              /\ last.err.index + 1 \in 1..Len(manifest.Files)
              /\ ~ParentDeclared(manifest, last.err.index + 1)
              /\ \A i \in 1..last.err.index : ParentDeclared(manifest, i)

\* an entry was rejected whose directory is declared by a later entry only
C7_Witness ==
    /\ last.op = "Resolve"
    /\ ~last.err.nil
    /\ last.err.field = "directory"
    /\ last.err.index = 0
    /\ \E j \in 2..Len(manifest.Files) :
          /\ manifest.Files[j].Type = TypeDIR
          /\ TrimRightSlash(manifest.Files[j].Name) = ParentOf(manifest.Files[1].Name)

(***************************************************************************)
(* Properties of the command-line harness                                  *)
(***************************************************************************)

\* the run opened the output file, Build returned an error, and Main exited with 1
BuildFailedInMain == last.op = "Main" /\ last.exit = 1 /\ last.stage = "Build"

\* C15: when the harness has created or truncated the output file and the build then
\* fails, the harness discards what was written: after the exit with code 1 the output
\* path holds no empty or truncated file, and a file that was there before the run is
\* still there with its content.
C15_FailedRunLeavesNoOutput ==
    BuildFailedInMain =>
        /\ out.exists = ghost.before.exists
        /\ out.sink = ghost.before.sink

(***************************************************************************)
(* Properties of the rendering methods                                     *)
(***************************************************************************)

\* the bytes the last rendering call returned
Rendered == out.sink[1].bytes

RECURSIVE SplitLines(_)
\* the lines of a text, each without its newline; what follows the last newline
\* counts as a line if it is not empty
SplitLines(text) ==
    LET ends == {i \in 1..Len(text) : text[i] = "\n"}
        first == CHOOSE i \in ends : \A j \in ends : i <= j
    IN  IF text = <<>> THEN <<>>
        ELSE IF ends = {} THEN <<text>>
        ELSE <<SubSeq(text, 1, first - 1)>> \o SplitLines(SubSeq(text, first + 1, Len(text)))

\* the fields of the control file in their order: key, value, and whether mandatory
ControlFields(m) ==
    << << <<"P","a","c","k","a","g","e">>, m.Package, TRUE >>,
       << <<"V","e","r","s","i","o","n">>, m.Version, TRUE >>,
       << <<"S","e","c","t","i","o","n">>, m.Section, FALSE >>,
       << <<"P","r","i","o","r","i","t","y">>, m.Priority, FALSE >>,
       << <<"A","r","c","h","i","t","e","c","t","u","r","e">>, m.Arch, FALSE >>,
       << <<"E","s","s","e","n","t","i","a","l">>, m.Essential, FALSE >>,
       << <<"D","e","p","e","n","d","s">>, m.Depends, FALSE >>,
       << <<"P","r","e","-","D","e","p","e","n","d","s">>, m.PreDepends, FALSE >>,
       << <<"R","e","c","o","m","m","e","n","d","s">>, m.Recommends, FALSE >>,
       << <<"S","u","g","g","e","s","t","s">>, m.Suggests, FALSE >>,
       << <<"E","n","h","a","n","c","e","s">>, m.Enhances, FALSE >>,
       << <<"B","r","e","a","k","s">>, m.Breaks, FALSE >>,
       << <<"C","o","n","f","l","i","c","t","s">>, m.Conflicts, FALSE >>,
       << <<"I","n","s","t","a","l","l","e","d","-","S","i","z","e">>, FormatInt(m.installedSize), TRUE >>,
       << <<"M","a","i","n","t","a","i","n","e","r">>, m.Maintainer, TRUE >>,
       << <<"H","o","m","e","p","a","g","e">>, m.HomePage, FALSE >>,
       << <<"B","u","i","l","t","-","U","s","i","n","g">>, m.BuiltUsing, FALSE >>,
       << <<"D","e","s","c","r","i","p","t","i","o","n">>, m.ShortDescription, TRUE >> >>

IsWrittenField(f) == f[3] \/ f[2] # <<>>

\* the lines of the control file: a line for each mandatory and each non-empty field,
\* then the long description as continuation lines
ExpectedControlLines(m) ==
    LET fields == SelectSeq(ControlFields(m), IsWrittenField)
    IN  [k \in 1..Len(fields) |-> fields[k][1] \o <<":"," ">> \o fields[k][2]]
        \o [k \in 1..Len(m.LongDescription) |->
              IF m.LongDescription[k] = <<>> THEN <<" ",".">> ELSE <<" ">> \o m.LongDescription[k]]

\* C13: the control file lists its fields in the fixed order Package, Version, Section,
\* Priority, Architecture, Essential, Depends, Pre-Depends, Recommends, Suggests,
\* Enhances, Breaks, Conflicts, Installed-Size, Maintainer, Homepage, Built-Using,
\* Description; Package, Version, Installed-Size, Maintainer and Description always
\* appear and every other field exactly if its value is not empty; each line of the
\* long description follows as a line that begins with a space, an empty one as " .".
C13_ControlFileSchema ==
    Succeeded("ControlFile") =>
        /\ Rendered[Len(Rendered)] = "\n"
        /\ SplitLines(Rendered) = ExpectedControlLines(manifest)

\* a control file was rendered for a manifest with some optional fields set and others
\* empty, among these the architecture, and with an empty long-description line
C13_Witness ==
    /\ Succeeded("ControlFile")
    /\ manifest.Arch = <<>>
    /\ manifest.Section # <<>>
    /\ manifest.Priority = <<>>
    /\ manifest.HomePage # <<>>
    /\ \E k \in 1..Len(manifest.LongDescription) : manifest.LongDescription[k] = <<>>
    /\ manifest.installedSize = 4096

\* C20: the rendering methods succeed only if the most recent Resolve returned nil: a
\* rendering call that follows a Resolve that returned an error panics with the
\* not-resolved failure, also when an earlier Resolve had succeeded.
C20_RenderNeedsLastResolve ==
    [][(last.op = "Resolve" /\ ~last.err.nil /\ last'.op \in RenderOps) =>
          last'.panic = "must call Resolve first"]_vars

(***************************************************************************)
(* Properties of validation                                                *)
(***************************************************************************)

\* the concrete type of an entry: Auto stands for Directory under a name that ends
\* in a slash and for RegularFile otherwise
ConcreteType(file) ==
    IF file.Type # TypeAUTO THEN file.Type
    ELSE IF file.Name # <<>> /\ file.Name[Len(file.Name)] = "/" THEN TypeDIR ELSE TypeREG

IsDevice(file) == ConcreteType(file) \in {TypeCHR, TypeBLK}

\* the invariant of the metadata field called field is violated in m
MetadataViolated(m, field) ==
    CASE field = "package" -> m.Package = <<>> \/ ~isValidPackage(m.Package)
      [] field = "version" -> m.Version = <<>> \/ ~isValidVersion(m.Version)
      [] field = "arch" -> m.Arch = <<>> \/ ~isValidArch(m.Arch)
      [] field = "section" -> m.Section # <<>> /\ ~isValidSection(m.Section)
      [] field = "priority" -> m.Priority # <<>> /\ ~isValidPriority(m.Priority)
      [] field = "maintainer" -> m.Maintainer = <<>>
      [] field = "shortDescription" ->
            m.ShortDescription = <<>> \/ ~isValidDescriptionLine(m.ShortDescription)
      [] field = "longDescription" ->
            \E i \in 1..Len(m.LongDescription) : ~isValidDescriptionLine(m.LongDescription[i])
      [] OTHER -> FALSE

\* the invariant of the entry field called field is violated in file
EntryViolated(file, field) ==
    CASE field = "name" ->
            \/ file.Name = <<>>
            \/ ~isValidUnixPath(file.Name)
            \/ ConcreteType(file) # TypeDIR
                  /\ (file.Name = <<".">> \/ file.Name[Len(file.Name)] = "/")
      [] field = "isConf" -> file.IsConf /\ ConcreteType(file) # TypeREG
      [] field = "path" ->
            /\ file.Path # <<>>
            /\ \/ ConcreteType(file) # TypeREG
               \/ ~isValidUnixPath(file.Path[1])
               \/ file.Path[1][Len(file.Path[1])] = "/"
      [] field = "text" ->
            file.Text # <<>> /\ (ConcreteType(file) # TypeREG \/ file.Path # <<>>)
      [] field = "bytes" ->
            /\ file.Bytes # <<>>
            /\ ConcreteType(file) # TypeREG \/ file.Path # <<>> \/ file.Text # <<>>
      [] field = "link" ->
            IF ConcreteType(file) = TypeLNK
            THEN file.Link = <<>> \/ file.Link[1] # PathClean(file.Link[1])
            ELSE file.Link # <<>>
      [] field = "major" -> IF IsDevice(file) THEN file.Major = <<>> ELSE file.Major # <<>>
      [] field = "minor" -> IF IsDevice(file) THEN file.Minor = <<>> ELSE file.Minor # <<>>
      [] OTHER -> FALSE

\* the fields of the metadata and of an entry that validation reports under a name
MetadataFields ==
    {"package", "version", "arch", "section", "priority", "maintainer",
     "shortDescription", "longDescription"}

EntryFields == {"name", "isConf", "path", "text", "bytes", "link", "major", "minor"}

\* the last call was a validation that returned an error under a field's name
FieldError ==
    /\ last.op \in {"Validate", "Resolve"}
    /\ ~last.err.nil
    /\ IF last.err.index < 0 THEN last.err.field \in MetadataFields
       ELSE last.err.field \in EntryFields

\* C11: an error of validation begins with the name of the field whose invariant is
\* violated, after files[index] for an entry: the invariant of the field the error
\* names is violated in the manifest, or in the entry at that index.
C11_ErrorNamesField ==
    FieldError =>
        IF last.err.index < 0 THEN MetadataViolated(manifest, last.err.field)
        ELSE EntryViolated(manifest.Files[last.err.index + 1], last.err.field)

EndsInSlash(name) == name # <<>> /\ name[Len(name)] = "/"

\* the entry after a successful Resolve, against the entry as it was declared
ResolvedEntry(before, after) ==
    /\ after.Type \in {TypeDIR, TypeREG, TypeLNK, TypeFIFO, TypeCHR, TypeBLK}
    /\ after.Type = (IF before.Type # TypeAUTO THEN before.Type
                     ELSE IF EndsInSlash(before.Name) THEN TypeDIR ELSE TypeREG)
    /\ IF after.Type = TypeDIR
       THEN /\ EndsInSlash(after.Name)
            /\ ~EndsInSlash(SubSeq(after.Name, 1, Len(after.Name) - 1))
       ELSE /\ ~EndsInSlash(after.Name)
            /\ after.Name # <<".">>

\* C16: a successful Resolve leaves every entry with a concrete type: an entry declared
\* Auto has become Directory if its name ended in a slash and RegularFile otherwise;
\* the stored name of every Directory ends in exactly one slash, and the name of no
\* other entry ends in a slash or is ".".
C16_ConcreteAfterResolve ==
    [][(last'.op = "Resolve" /\ last'.err.nil) =>
          /\ Len(manifest'.Files) = Len(manifest.Files)
          /\ \A i \in 1..Len(manifest.Files) :
                ResolvedEntry(manifest.Files[i], manifest'.Files[i])]_vars

\* a Directory has been resolved under a name with one trailing slash
C16_Witness ==
    /\ Succeeded("Resolve")
    /\ Len(manifest.Files) = 1
    /\ manifest.Files[1].Type = TypeDIR
    /\ manifest.Files[1].Name = <<"a","/">>
    /\ manifest.Files[1].isResolved

\* how many of the content sources path, text and bytes the entry has
ContentSources(file) ==
    (IF file.Path # <<>> THEN 1 ELSE 0) + (IF file.Text # <<>> THEN 1 ELSE 0)
    + (IF file.Bytes # <<>> THEN 1 ELSE 0)

\* the entry breaks a constraint its type puts on major, minor, link, path, text,
\* bytes or isConf
TypeConstraintBroken(file) ==
    \/ IF IsDevice(file) THEN file.Major = <<>> \/ file.Minor = <<>>
       ELSE file.Major # <<>> \/ file.Minor # <<>>
    \/ IF ConcreteType(file) = TypeLNK
       THEN file.Link = <<>> \/ file.Link[1] # PathClean(file.Link[1])
       ELSE file.Link # <<>>
    \/ IF ConcreteType(file) = TypeREG THEN ContentSources(file) > 1
       ELSE ContentSources(file) > 0 \/ file.IsConf

\* C17: validation of an entry enforces the constraints of its type in both
\* directions: a device needs major and minor and no other type may have either; a
\* symlink needs a link equal to its cleaned form and no other type may have a link;
\* path, text, bytes and isConf are for regular files only, which may have at most one
\* of path, text and bytes.  An entry that breaks a constraint is rejected, and an entry
\* under a proper name that breaks none is accepted by Validate.
C17_TypeConstraints ==
    (last.op \in {"Validate", "Resolve"} /\ Len(manifest.Files) = 1) =>
        /\ TypeConstraintBroken(manifest.Files[1]) => ~last.err.nil
        /\ (/\ last.op = "Validate"
            /\ ~TypeConstraintBroken(manifest.Files[1])
            /\ ~EntryViolated(manifest.Files[1], "name")) => last.err.nil

\* a block device with a major and no minor has been rejected
C17_Witness ==
    /\ last.op = "Validate"
    /\ ~last.err.nil
    /\ Len(manifest.Files) = 1
    /\ manifest.Files[1].Type = TypeBLK
    /\ manifest.Files[1].Major # <<>>
    /\ manifest.Files[1].Minor = <<>>
    /\ manifest.Files[1].Link = <<>>
    /\ ContentSources(manifest.Files[1]) = 0
    /\ ~manifest.Files[1].IsConf
    /\ manifest.Files[1].Name = <<"a">>


(***************************************************************************)
(* Validate against Resolve                                                *)
(***************************************************************************)

\* the content of every regular file of the manifest is at hand: in the entry, or in
\* the content root under the entry's path or name
SourcesAvailable(m) ==
    \A i \in 1..Len(m.Files) :
        (ConcreteType(m.Files[i]) = TypeREG /\ m.Files[i].Bytes = <<>> /\ m.Files[i].Text = <<>>) =>
            FSHas(RootFS, IF m.Files[i].Path # <<>> THEN m.Files[i].Path[1] ELSE m.Files[i].Name)

\* C24: Validate and Resolve accept the same manifests: on a manifest whose content
\* sources are all available, Resolve returns an error if and only if the Validate
\* just before it did.
C24_SameAcceptance ==
    [][(last.op = "Validate" /\ last'.op = "Resolve" /\ SourcesAvailable(manifest)) =>
          (last.err.nil <=> last'.err.nil)]_vars

\* C25: after a Resolve that returned nil no two entries name the same path: the
\* names are pairwise distinct also when a trailing slash is left out of account.
C25_DistinctPaths ==
    Succeeded("Resolve") =>
        \A i, j \in 1..Len(manifest.Files) :
            i # j => TrimRightSlash(manifest.Files[i].Name) # TrimRightSlash(manifest.Files[j].Name)

\* what does hold: after a Resolve that returned nil the names are pairwise distinct
DistinctNames ==
    Succeeded("Resolve") =>
        \A i, j \in 1..Len(manifest.Files) :
            i # j => manifest.Files[i].Name # manifest.Files[j].Name
(***************************************************************************)
(* The fan-out writer                                                      *)
(***************************************************************************)

\* the bytes the underlying writer has accepted for the open entry
AcceptedBytes == hashWriter.file[Len(hashWriter.file)].body

\* C21: after every return of the Write of a hashWriter, be it a full write, a short write or
\* a write that returned an error, every configured hasher has absorbed exactly the
\* bytes the underlying writer accepted so far, and so all hashers the same bytes.
C21_DigestsFollowAccepted ==
    hashWriter.writes > 0 =>
        \A a \in DOMAIN hashWriter.hashers :
            hashWriter.hashers[a] = hasherWrite(HashNew(a), AcceptedBytes)

\* a short write that returned an error, after an earlier write, with two hashers
C21_Witness ==
    /\ hashWriter.writes > 1
    /\ hashWriter.err
    /\ hashWriter.n > 0
    /\ Len(AcceptedBytes) > hashWriter.n
    /\ Cardinality(DOMAIN hashWriter.hashers) > 1
    /\ C21_DigestsFollowAccepted

(***************************************************************************)
(* The temporary directory of Build                                        *)
(***************************************************************************)

\* the positions of the call in the calls of the last Build
CallsOf(call) == {i \in 1..Len(ghost.calls) : ghost.calls[i] = call}

\* the temporary file was opened, then closed, and the directory removed after that
ClosedBeforeRemoval(open, close) ==
    CallsOf(open) # {} =>
        /\ CallsOf(close) # {}
        /\ \A i \in CallsOf(close), j \in CallsOf("RemoveAll") : i < j

\* C23: a Build that has created its temporary directory calls RemoveAll on it exactly
\* once before control leaves Build, whether Build returns nil, returns an error or
\* panics, and after it has closed each temporary file it had opened.
C23_TempDirRemovedOnce ==
    (last.op = "Build" /\ CallsOf("MkdirTemp") # {}) =>
        /\ Cardinality(CallsOf("RemoveAll")) = 1
        /\ ClosedBeforeRemoval("controlFile.Open", "controlFile.Close")
        /\ ClosedBeforeRemoval("dataFile.Open", "dataFile.Close")

\* a Build that panicked with both temporary files open
C23_Witness ==
    /\ last.op = "Build"
    /\ last.panic # NoPanic
    /\ CallsOf("dataFile.Open") # {}
    /\ CallsOf("RemoveAll") # {}

(***************************************************************************)
(* The names of the container's entries                                    *)
(***************************************************************************)

\* the width of the name field of an ar header
ArNameWidth == 16

\* the names writeArFile gives the three entries under a compression algorithm
ContainerNames(compression) ==
    { <<"d","e","b","i","a","n","-","b","i","n","a","r","y">>, <<"c","o","n","t","r","o","l",".","t","a","r">> \o CompressSuffix(compression),
      <<"d","a","t","a",".","t","a","r">> \o CompressSuffix(compression) }

\* the names Build gives the entries: those of the builder's algorithm after
\* fillDefaults
BuildNames == ContainerNames(fillDefaults(builder).Compression)

\* the names in the ar headers Build wrote to its sink
WrittenNames ==
    {SubSeq(e.hdr, 1, ArNameWidth) : e \in {x \in SeqToSet(ArEntries(Tail(out.sink))) : Len(x.hdr) = 60}}

\* C26: under every compression algorithm of the closed set the three entry names of
\* Build are at most 16 bytes long, so that Build never ends in writeArEntry's panic
\* for a name that exceeds the field, and the headers carry the names whole.
C26_EntryNamesFit ==
    builder.Compression \in CompressValues =>
        /\ \A name \in ContainerNames(builder.Compression) \cup BuildNames :
              Len(name) <= ArNameWidth
        /\ last.op = "Build" =>
              /\ last.panic # "name exceeds 16 bytes"
              /\ out.sink # <<>> =>
                    WrittenNames \subseteq {PadRight(name, ArNameWidth) : name \in BuildNames}

\* a successful Build whose partition names fill the name field: control.tar.zstd
C26_Witness ==
    /\ Succeeded("Build")
    /\ builder.Compression = CompressZSTD
    /\ <<"c","o","n","t","r","o","l",".","t","a","r",".","z","s","t","d">> \in WrittenNames
    /\ Cardinality(WrittenNames) = 3

====
